---- MODULE Spec2Model ----
(***************************************************************************)
(* Local-first synchronisation engine of the property manager:             *)
(*   - the IndexedDB repository (durable store + in-memory cache),         *)
(*   - the offline queue,                                                  *)
(*   - the REST client with its error normalisation,                       *)
(*   - the sync service (queue drain, pull, reconnect sequence),           *)
(*   - the network status monitor and the WebSocket push handler,          *)
(*   - the server's repository and routes.                                 *)
(* JavaScript runs one callback at a time; every action below is the code  *)
(* that runs between two suspension points (a network round trip, a timer, *)
(* an IndexedDB request).                                                   *)
(***************************************************************************)
EXTENDS Integers, Sequences, FiniteSets, TLC

(***************************************************************************)
(* Bounds of the model.                                                    *)
(***************************************************************************)
MaxOps == 2
MaxFaults == 1
MaxNetEvents == 1
MaxRemote == 1
MaxServerCalls == 3

\* Record payloads (the non-identifier fields of a property).
Vals == {"a", "b"}

\* null / undefined identifier (falsy in the code).
NoId == 0

\* Local identifiers ("local_<time>_<random>") are drawn above every server id.
LocalBase == 100

LocalId(n) == LocalBase + n

IsLocal(id) == id > LocalBase

Rec(id, serverId, v) == [id |-> id, serverId |-> serverId, v |-> v]

NoRec == Rec(NoId, NoId, "")

(***************************************************************************)
(* Sequence helpers.                                                       *)
(***************************************************************************)
RECURSIVE SelectRecs(_, _)
SelectRecs(s, keep) ==
  IF s = <<>> THEN <<>>
  ELSE IF Head(s).id \in keep
       THEN <<Head(s)>> \o SelectRecs(Tail(s), keep)
       ELSE SelectRecs(Tail(s), keep)

Ids(s) == {s[i].id : i \in 1..Len(s)}

\* Array.prototype.filter(p => p.id !== id)
FilterOut(s, id) == SelectRecs(s, Ids(s) \ {id})

\* Array.prototype.findIndex(p => p.id === id), 0 when absent
FindIndex(s, id) ==
  IF id \in Ids(s)
  THEN CHOOSE i \in 1..Len(s) : s[i].id = id /\ \A j \in 1..(i - 1) : s[j].id # id
  ELSE 0

\* Array.prototype.map(p => p.id === r.id ? r : p)
MapReplace(s, r) == [i \in 1..Len(s) |-> IF s[i].id = r.id THEN r ELSE s[i]]

CountId(s, id) == Cardinality({i \in 1..Len(s) : s[i].id = id})

\* objectStore.getAll(): the records of a store in key order
RECURSIVE SortedById(_)
SortedById(S) ==
  IF S = {} THEN <<>>
  ELSE LET m == CHOOSE r \in S : \A q \in S : r.id <= q.id
       IN <<m>> \o SortedById(S \ {m})

(***************************************************************************)
(* String helpers (String.prototype.includes / toLowerCase).                *)
(***************************************************************************)
Includes(s, p) ==
  \E i \in 1..(Len(s) - Len(p) + 1) : SubSeq(s, i, i + Len(p) - 1) = p

Upper == "ABCDEFGHIJKLMNOPQRSTUVWXYZ"

Lower == "abcdefghijklmnopqrstuvwxyz"

LowerOf == [c \in {SubSeq(Upper, i, i) : i \in 1..Len(Upper)} |->
              LET i == CHOOSE k \in 1..Len(Upper) : SubSeq(Upper, k, k) = c
              IN SubSeq(Lower, i, i)]

LowerChar(c) == IF c \in DOMAIN LowerOf THEN LowerOf[c] ELSE c

RECURSIVE ToLowerCase(_)
ToLowerCase(s) ==
  IF Len(s) = 0 THEN ""
  ELSE LowerChar(SubSeq(s, 1, 1)) \o ToLowerCase(SubSeq(s, 2, Len(s)))

(***************************************************************************)
(* Errors.  An error carries a status (0: none), a message, details and a  *)
(* userMessage ("": none).  NoErr stands for no error at all (null).        *)
(***************************************************************************)
Err(status, message, details) ==
  [status |-> status, message |-> message, details |-> details, userMessage |-> ""]

NoErr == Err(0, "", "")

\* utils/errorMessages.js getFriendlyErrorMessage
GetFriendlyErrorMessage(error) ==
  LET errorMessage == IF error.message # "" THEN error.message ELSE "Error"
      errorString == ToLowerCase(errorMessage)
  IN IF error = NoErr
     THEN "An unexpected error occurred. Please try again."
     ELSE IF \/ Includes(errorString, "network")
        \/ Includes(errorString, "fetch")
        \/ Includes(errorString, "failed to fetch")
        \/ Includes(errorMessage, "ERR_NETWORK")
        \/ Includes(errorMessage, "ERR_INTERNET_DISCONNECTED")
     THEN "Unable to connect to the server. Please check your internet connection and try again."
     ELSE IF Includes(errorString, "timeout") \/ Includes(errorString, "timed out")
     THEN "The request took too long. Please check your connection and try again."
     ELSE IF \/ error.status = 500
             \/ Includes(errorString, "500")
             \/ Includes(errorString, "internal server")
     THEN "The server encountered an error. Please try again later."
     ELSE IF \/ error.status = 404
             \/ Includes(errorString, "404")
             \/ Includes(errorString, "not found")
     THEN "The requested item could not be found."
     ELSE IF \/ error.status = 400
             \/ Includes(errorString, "400")
             \/ Includes(errorString, "bad request")
     THEN LET details == IF error.details # "" THEN error.details ELSE error.message
          IN IF details # "" /\ details # errorMessage
             THEN "Invalid data: " \o details
             ELSE "Invalid data provided. Please check your input and try again."
     ELSE IF \/ error.status = 401
             \/ Includes(errorString, "401")
             \/ Includes(errorString, "unauthorized")
     THEN "You are not authorized to perform this action."
     ELSE IF \/ error.status = 403
             \/ Includes(errorString, "403")
             \/ Includes(errorString, "forbidden")
     THEN "You do not have permission to perform this action."
     ELSE IF \/ Includes(errorString, "database")
             \/ Includes(errorString, "indexeddb")
             \/ Includes(errorString, "storage")
     THEN "Unable to save data locally. Please check your browser storage settings."
     ELSE IF /\ Includes(errorString, "id")
             /\ Includes(errorString, "required") \/ Includes(errorString, "missing")
     THEN "An item identifier is required. Please try refreshing the page."
     ELSE IF Includes(errorString, "connection") \/ Includes(errorString, "connect")
     THEN "Unable to connect to the server. Please check your internet connection."
     ELSE IF error.userMessage # ""
     THEN error.userMessage
     ELSE "Something went wrong. Please try again. If the problem persists, contact support."

\* The messages getFriendlyErrorMessage spells out, one per category.
CategoryMessages ==
  {"An unexpected error occurred. Please try again.",
   "Unable to connect to the server. Please check your internet connection and try again.",
   "The request took too long. Please check your connection and try again.",
   "The server encountered an error. Please try again later.",
   "The requested item could not be found.",
   "Invalid data provided. Please check your input and try again.",
   "You are not authorized to perform this action.",
   "You do not have permission to perform this action.",
   "Unable to save data locally. Please check your browser storage settings.",
   "An item identifier is required. Please try refreshing the page.",
   "Unable to connect to the server. Please check your internet connection.",
   "Something went wrong. Please try again. If the problem persists, contact support."}

\* The errors the client meets: what apiRequest builds from a response
\* (status, the server's error and details), what fetch and IndexedDB throw,
\* what the repository rejects with.
ErrorStatuses == {0, 400, 401, 403, 404, 500, 503}

ErrorTexts ==
  {"Failed to fetch", "Failed to update property", "Property not found",
   "Property with ID not found", "HTTP 503", "QuotaExceededError", "Transaction aborted"}

ErrorDetails == {"", "Unexpected field", "Failed to update property"}

ErrorInputs ==
  {Err(status, message, details) :
     status \in ErrorStatuses, message \in ErrorTexts, details \in ErrorDetails}

\* services/serverRepository.js: every exported call rethrows
\* `new Error(friendlyMessage)`, an error without status and details.
ClientError(error) == Err(0, GetFriendlyErrorMessage(error), "")

\* A faulty variant of IsNetworkError: only a 5xx status counts as retryable.
IsNetworkErrorStatusOnly(error) == error.status >= 500

\* services/syncService.js: the catch block's classification
IsNetworkError(error) ==
  LET errorMsgLower == ToLowerCase(error.message)
  IN \/ error.status >= 500
     \/ error.status = 502
     \/ error.status = 503
     \/ error.status = 504
     \/ Includes(errorMsgLower, "network")
     \/ Includes(errorMsgLower, "fetch")
     \/ Includes(errorMsgLower, "failed to fetch")
     \/ Includes(errorMsgLower, "cors")
     \/ Includes(errorMsgLower, "unable to connect")
     \/ Includes(errorMsgLower, "connection")
     \/ Includes(errorMsgLower, "timeout")
     \/ error.status = 0

\* services/syncService.js: the delete case's test for "already deleted"
IsAlreadyDeleted(deleteError) ==
  Includes(deleteError.message, "not found") \/ Includes(deleteError.message, "404")

(***************************************************************************)
(* The faults a request can meet that do not come from the server's data:  *)
(* the request never arrives, the response never arrives, or the remote    *)
(* authority answers with a 4xx / 5xx of its own.                          *)
(***************************************************************************)
Faults == {"unsent", "lost", "http400", "http500"}

\* services/serverRepository.js apiRequest: the error built for a fault
FaultError(fault) ==
  CASE fault = "unsent"  -> Err(0, "Failed to fetch", "")
    [] fault = "lost"    -> Err(0, "Failed to fetch", "")
    [] fault = "http400" -> Err(400, "Failed to update property", "Unexpected field")
    [] fault = "http500" -> Err(500, "Failed to delete property", "")

NotFoundError == Err(404, "Property not found", "")

(***************************************************************************)
(* The server's repository (server/repository.js) and routes               *)
(* (server/index.js).  A server state is [properties, nextId].             *)
(***************************************************************************)
Srv(properties, nextId) == [properties |-> properties, nextId |-> nextId]

\* repository.add: identifier fields are stripped, the id is String(nextId++)
ServerAdd(srv, propertyData) ==
  LET newProperty == Rec(srv.nextId, NoId, propertyData.v)
  IN [srv |-> Srv(Append(srv.properties, newProperty), srv.nextId + 1),
      result |-> newProperty]

\* A faulty variant of ServerUpdate: the record is deleted and created anew.
ServerUpdateRecreates(srv, property) ==
  LET index == FindIndex(srv.properties, property.id)
  IN IF index = 0
     THEN [srv |-> srv, result |-> NoRec]
     ELSE [srv |-> Srv(Append(FilterOut(srv.properties, property.id), property),
                       srv.nextId),
           result |-> property]

\* repository.update: properties[index] = { ...property }, null when absent
ServerUpdate(srv, property) ==
  LET index == FindIndex(srv.properties, property.id)
  IN IF index = 0
     THEN [srv |-> srv, result |-> NoRec]
     ELSE [srv |-> Srv([srv.properties EXCEPT ![index] = property], srv.nextId),
           result |-> property]

\* repository.remove: splice(index, 1), null when absent
ServerRemove(srv, id) ==
  LET index == FindIndex(srv.properties, id)
  IN IF index = 0
     THEN [srv |-> srv, result |-> NoRec]
     ELSE [srv |-> Srv(FilterOut(srv.properties, id), srv.nextId),
           result |-> Rec(id, NoId, "")]

\* loadData: the properties are those of the data file; nextId is computed
\* from them (the largest numeric id plus one, 1 when there is none), the
\* nextId saved in the file is not read.  Identifiers are the decimal strings
\* of positive integers, which parseInt maps back to the integer.
ServerLoadData(srv) ==
  LET ids == {id \in Ids(srv.properties) : id > 0}
  IN Srv(srv.properties,
         IF ids # {} THEN (CHOOSE m \in ids : \A id \in ids : id <= m) + 1 ELSE 1)

(***************************************************************************)
(* The offline queue (services/offlineQueue.js).  The store is kept in key *)
(* order; an operation is [id, operation, data, timestamp, attempts].       *)
(***************************************************************************)
QueueItem(id, operation, data, timestamp) ==
  [id |-> id, operation |-> operation, data |-> data,
   timestamp |-> timestamp, attempts |-> 0]

\* payload of a queued create: { ...property, localId }
CreateData(localId, v) == [localId |-> localId, id |-> NoId, serverId |-> NoId, v |-> v]

\* payload of a queued update: { ...updatedProperty, id: serverId }
UpdateData(property) ==
  [localId |-> NoId, id |-> property.serverId, serverId |-> property.serverId,
   v |-> property.v]

\* payload of a queued delete: { id: serverId }
DeleteData(serverId) == [localId |-> NoId, id |-> serverId, serverId |-> NoId, v |-> ""]

\* enqueue: objectStore.add under the next auto-increment key
Enqueue(q, key, operation, data, timestamp) ==
  Append(q, QueueItem(key, operation, data, timestamp))

\* Array.prototype.sort((a, b) => a.timestamp - b.timestamp), a stable sort
RECURSIVE InsertByTimestamp(_, _)
InsertByTimestamp(sorted, item) ==
  IF sorted = <<>> THEN <<item>>
  ELSE IF item.timestamp < Head(sorted).timestamp
       THEN <<item>> \o sorted
       ELSE <<Head(sorted)>> \o InsertByTimestamp(Tail(sorted), item)

RECURSIVE SortByTimestamp(_)
SortByTimestamp(q) ==
  IF q = <<>> THEN <<>>
  ELSE InsertByTimestamp(SortByTimestamp(SubSeq(q, 1, Len(q) - 1)), q[Len(q)])

\* A faulty variant of QueueGetAll: the latest operation comes first.
RECURSIVE QueueGetAllLatestFirst(_)
QueueGetAllLatestFirst(q) ==
  IF q = <<>> THEN <<>>
  ELSE <<q[Len(q)]>> \o QueueGetAllLatestFirst(SubSeq(q, 1, Len(q) - 1))

\* getAll: every pending operation, by timestamp ascending
QueueGetAll(q) == SortByTimestamp(q)

\* dequeue: objectStore.delete(id); an absent id is no error
Dequeue(q, id) == SelectRecs(q, Ids(q) \ {id})

\* incrementAttempts: attempts + 1 on the stored item, nothing when absent
IncrementAttempts(q, id) ==
  [i \in 1..Len(q) |->
     IF q[i].id = id THEN [q[i] EXCEPT !.attempts = @ + 1] ELSE q[i]]

(***************************************************************************)
(* The IndexedDB repository (data/indexedDbRepository.js).  A store state  *)
(* is [db, cache, isNull, init, notified, observer]: the object store, the  *)
(* module's propertiesCache (<<>> while it is null), isInitialized, the     *)
(* last snapshot handed to the observers, and the RepositoryObserver.       *)
(***************************************************************************)
Store(d, c, n, i, o, b) ==
  [db |-> d, cache |-> c, isNull |-> n, init |-> i, notified |-> o, observer |-> b]

\* The callbacks that subscribe to the repository: the App's, and one whose
\* body throws whenever it is invoked.
Observers == {"app", "faulty"}

Throws(callback) == callback = "faulty"

\* RepositoryObserver: the Set of subscribers, in insertion order, and per
\* callback the data it was last invoked with.
Observer(subscribers, delivered) == [subscribers |-> subscribers, delivered |-> delivered]

Subscribed(ob) == {ob.subscribers[k] : k \in 1..Len(ob.subscribers)}

\* subscribe(callback): Set.add, a callback already in the Set is not added
ObserverSubscribe(ob, callback) ==
  IF callback \in Subscribed(ob) THEN ob
  ELSE Observer(Append(ob.subscribers, callback), ob.delivered)

\* the handle subscribe returned: Set.delete
ObserverUnsubscribe(ob, callback) ==
  Observer(SelectSeq(ob.subscribers, LAMBDA x : x # callback), ob.delivered)

\* A faulty variant of ObserverNotify without the try / catch: the first
\* callback that throws ends the iteration.
ObserverNotifyUnguarded(ob, data) ==
  Observer(ob.subscribers,
           [callback \in Observers |->
              IF \E k \in 1..Len(ob.subscribers) :
                   /\ ob.subscribers[k] = callback
                   /\ \A j \in 1..(k - 1) : ~Throws(ob.subscribers[j])
              THEN data ELSE ob.delivered[callback]])

\* notify(data): every subscriber is invoked with data, in insertion order;
\* what a callback throws is caught and logged
ObserverNotify(ob, data) ==
  Observer(ob.subscribers,
           [callback \in Observers |->
              IF callback \in Subscribed(ob) THEN data ELSE ob.delivered[callback]])

DbIds(d) == {r.id : r \in d}

DbGet(d, id) == IF id \in DbIds(d) THEN CHOOSE r \in d : r.id = id ELSE NoRec

DbPut(d, r) == {x \in d : x.id # r.id} \cup {r}

DbDelete(d, id) == {x \in d : x.id # id}

\* getAll: the cached snapshot, or a reload from the object store
RepoGetAll(st) ==
  IF ~st.isNull /\ st.init
  THEN st
  ELSE Store(st.db, SortedById(st.db), FALSE, TRUE, st.notified, st.observer)

\* getById: the cache first, then the object store; NoRec for null
RepoGetById(st, id) ==
  IF ~st.isNull /\ st.init /\ id \in Ids(st.cache)
  THEN st.cache[FindIndex(st.cache, id)]
  ELSE DbGet(st.db, id)

\* A faulty variant of RepoAddLocal: the observers are not notified.
RepoAddLocalSilent(st, propertyWithLocalId) ==
  Store(DbPut(st.db, propertyWithLocalId), Append(st.cache, propertyWithLocalId),
        FALSE, st.init, st.notified, st.observer)

\* add, up to the observers' notification: put, cache append, notify
RepoAddLocal(st, propertyWithLocalId) ==
  LET c == Append(st.cache, propertyWithLocalId)
  IN Store(DbPut(st.db, propertyWithLocalId), c, FALSE, st.init, c,
           ObserverNotify(st.observer, c))

\* update, up to the observers' notification
RepoUpdateLocal(st, property) ==
  LET updatedProperty == Rec(property.id, DbGet(st.db, property.id).serverId, property.v)
      c == MapReplace(st.cache, updatedProperty)
  IN Store(DbPut(st.db, updatedProperty), c, FALSE, st.init, c,
           ObserverNotify(st.observer, c))

\* remove, up to the observers' notification
RepoRemoveLocal(st, id) ==
  LET c == FilterOut(st.cache, id)
  IN Store(DbDelete(st.db, id), c, FALSE, st.init, c, ObserverNotify(st.observer, c))

\* updateLocalId: nothing when the record is gone; else delete the old key,
\* put under the server id, filter and append in the cache, notify
UpdateLocalId(st, localId, serverId) ==
  LET property == RepoGetById(st, localId)
      updatedProperty == Rec(serverId, serverId, property.v)
      c == Append(FilterOut(st.cache, localId), updatedProperty)
  IN IF property = NoRec
     THEN st
     ELSE Store(DbPut(DbDelete(st.db, localId), updatedProperty), c, FALSE, st.init, c,
                ObserverNotify(st.observer, c))

\* upsert: put, replace the first cache entry of that id or append, notify
Upsert(st, property) ==
  LET index == FindIndex(st.cache, property.id)
      c == IF index > 0 THEN [st.cache EXCEPT ![index] = property]
           ELSE Append(st.cache, property)
  IN Store(DbPut(st.db, property), c, FALSE, st.init, c, ObserverNotify(st.observer, c))

\* clearCache
ClearCache(st) == Store(st.db, <<>>, TRUE, FALSE, st.notified, st.observer)

(***************************************************************************)
(* State.                                                                  *)
(***************************************************************************)
VARIABLES
  db,               \* indexedDbRepository: the 'properties' object store
  propertiesCache,  \* indexedDbRepository: propertiesCache (<<>> while null)
  cacheNull,        \* indexedDbRepository: propertiesCache === null
  isInitialized,    \* indexedDbRepository: isInitialized
  notified,         \* the list the App holds: the snapshot it loaded at start,
                    \* then the one last handed to the repository's observers
  subscribers,      \* indexedDbRepository: observer.subscribers, in insertion order
  delivered,        \* per callback, the data it was last invoked with
  queue,            \* offlineQueue: the 'operations' object store, in key order
  nextKey,          \* offlineQueue: the store's auto-increment key
  server,           \* server/repository.js: [properties, nextId]
  wsConnected,      \* server/index.js: this client is in `clients`, socket open
  wsInbox,          \* push messages sent to this client and not yet handled
  isOnline,         \* networkStatus: isOnline
  serverReachable,  \* networkStatus: serverReachable
  probes,           \* networkStatus: liveness probes in flight, by origin
  isSyncing,        \* syncService: isSyncing
  sync,             \* per running sync sequence: its position and locals
  client,           \* per repository caller (UI, push handler): position, locals
  req,              \* per caller: the HTTP request in flight and its answer
  hist              \* history: the budgets used, the direct-replay oracle, the
                    \* status last handed to the network listeners, the error
                    \* last thrown to the UI by a repository call, the
                    \* identifiers the server's add has returned, the
                    \* message last made for the user, whether the remote
                    \* authority has stopped answering

vars ==
  <<db, propertiesCache, cacheNull, isInitialized, notified, subscribers,
    delivered, queue, nextKey, server, wsConnected, wsInbox, isOnline, serverReachable, probes, isSyncing,
    sync, client, req, hist>>

storeVars ==
  <<db, propertiesCache, cacheNull, isInitialized, notified, subscribers, delivered>>

queueVars == <<queue, nextKey>>

netVars == <<isOnline, serverReachable, probes>>

\* The reconnect sequences that may run at once, and the start-up sequence.
Seqs == {"s1", "s2"}

Boot == "boot"

Syncers == Seqs \cup {Boot}

Clients == {"ui", "ws"}

Procs == Syncers \cup Clients

St ==
  Store(db, propertiesCache, cacheNull, isInitialized, notified,
        Observer(subscribers, delivered))

SetStore(st) ==
  /\ db' = st.db
  /\ propertiesCache' = st.cache
  /\ cacheNull' = st.isNull
  /\ isInitialized' = st.init
  /\ notified' = st.notified
  /\ subscribers' = st.observer.subscribers
  /\ delivered' = st.observer.delivered

\* utils/networkStatus.js isNetworkOnline
IsNetworkOnline == isOnline /\ serverReachable

(***************************************************************************)
(* Requests.  A request is sent, then answered by the server (or met by a  *)
(* fault), then its answer is handled by the caller.                       *)
(***************************************************************************)
NoData == [localId |-> NoId, id |-> NoId, serverId |-> NoId, v |-> ""]

NoReq == [method |-> "none", data |-> NoData, st |-> "none", err |-> NoErr, body |-> <<>>]

Sent(method, data) ==
  [method |-> method, data |-> data, st |-> "sent", err |-> NoErr, body |-> <<>>]

Answered(r, err, body) == [r EXCEPT !.st = "done", !.err = err, !.body = body]

IdleSync ==
  [pc |-> "idle", pendingOps |-> <<>>, i |-> 0, success |-> 0, failed |-> 0,
   error |-> NoErr, waited |-> FALSE, skipped |-> FALSE, returned |-> FALSE,
   threw |-> FALSE, settled |-> FALSE, incFailed |-> 0, k |-> 0,
   localProps |-> <<>>, serverProperties |-> <<>>, j |-> 0]

IdleClient == [pc |-> "idle", op |-> "none", data |-> NoData]

(***************************************************************************)
(* The server's routes (server/index.js) and the transport.                *)
(***************************************************************************)
PushMsg(event, data) == [event |-> event, data |-> data]

\* notifyClients: the message reaches this client when its socket is open
NotifyClients(inbox, event, data) ==
  IF wsConnected THEN Append(inbox, PushMsg(event, data)) ELSE inbox

\* PUT /api/properties/:id with body propertyData: the record updated is
\* { ...propertyData, id }, id being the one of the URL; 404 when absent
PutRoute(srv, id, propertyData) ==
  LET updatedProperty == Rec(id, propertyData.serverId, propertyData.v)
      res == ServerUpdate(srv, updatedProperty)
  IN IF res.result = NoRec
     THEN [srv |-> srv, err |-> NotFoundError, body |-> <<>>, push |-> <<>>]
     ELSE [srv |-> res.srv, err |-> NoErr, body |-> <<res.result>>,
           push |-> <<PushMsg("updated", res.result)>>]

\* The route for request r: the server state after it, the error answered
\* (NoErr: a 2xx), the body answered and the push message broadcast.
Route(r) ==
  CASE r.method = "POST" ->
         LET res == ServerAdd(server, r.data)
         IN [srv |-> res.srv, err |-> NoErr, body |-> <<res.result>>,
             push |-> <<PushMsg("created", res.result)>>]
    [] r.method = "PUT" -> PutRoute(server, r.data.id, r.data)
    [] r.method = "DELETE" ->
         LET res == ServerRemove(server, r.data.id)
         IN IF res.result = NoRec
            THEN [srv |-> server, err |-> NotFoundError, body |-> <<>>, push |-> <<>>]
            ELSE [srv |-> res.srv, err |-> NoErr, body |-> <<>>,
                  push |-> <<PushMsg("deleted", res.result)>>]
    [] r.method = "GET" ->
         [srv |-> server, err |-> NoErr, body |-> server.properties, push |-> <<>>]

Broadcast(push) ==
  wsInbox' = IF push = <<>> THEN wsInbox
             ELSE NotifyClients(wsInbox, push[1].event, push[1].data)

\* The server handles the request of caller p and answers it.
ServerAnswer(p) ==
  /\ req[p].st = "sent"
  /\ LET out == Route(req[p])
     IN /\ server' = out.srv
        /\ Broadcast(out.push)
        /\ req' = [req EXCEPT ![p] = Answered(@, out.err, out.body)]
  /\ UNCHANGED <<storeVars, queueVars, wsConnected, netVars, isSyncing, sync,
                 client, hist>>

\* The request of caller p meets a fault: it never arrives ("unsent"), it is
\* handled but its answer never arrives ("lost"), or the remote authority
\* answers with an error status of its own.
RequestFault(p, fault) ==
  /\ req[p].st = "sent"
  /\ hist.faults < MaxFaults
  /\ hist' = [hist EXCEPT !.faults = @ + 1]
  /\ IF fault = "lost"
     THEN LET out == Route(req[p])
          IN server' = out.srv /\ Broadcast(out.push)
     ELSE UNCHANGED <<server, wsInbox>>
  /\ req' = [req EXCEPT ![p] = Answered(@, FaultError(fault), <<>>)]
  /\ UNCHANGED <<storeVars, queueVars, wsConnected, netVars, isSyncing, sync, client>>

\* repository.add called for a client of the server
RepositoryAdd(v) ==
  /\ hist.calls < MaxServerCalls
  /\ LET res == ServerAdd(server, CreateData(NoId, v))
     IN /\ server' = res.srv
        /\ hist' = [hist EXCEPT !.calls = @ + 1, !.issued = @ \cup {res.result.id}]
  /\ UNCHANGED <<storeVars, queueVars, wsConnected, wsInbox, netVars, isSyncing,
                 sync, client, req>>

\* repository.remove called for a client of the server
RepositoryRemove(id) ==
  /\ hist.calls < MaxServerCalls
  /\ server' = ServerRemove(server, id).srv
  /\ hist' = [hist EXCEPT !.calls = @ + 1]
  /\ UNCHANGED <<storeVars, queueVars, wsConnected, wsInbox, netVars, isSyncing,
                 sync, client, req>>

\* Another client of the same server sends PUT /api/properties/id with a
\* body that carries the identifier bodyId.
OtherClientUpdate(id, bodyId, v) ==
  /\ hist.calls < MaxServerCalls
  /\ hist' = [hist EXCEPT !.calls = @ + 1]
  /\ LET out == PutRoute(server, id, [localId |-> NoId, id |-> bodyId,
                                      serverId |-> NoId, v |-> v])
     IN server' = out.srv /\ Broadcast(out.push)
  /\ UNCHANGED <<storeVars, queueVars, wsConnected, netVars, isSyncing, sync,
                 client, req>>

\* The server process restarts: the module state is rebuilt by initialize()
\* from the data file, which every add, update and remove has saved.
RepositoryRestart ==
  /\ server' = ServerLoadData(server)
  /\ UNCHANGED <<storeVars, queueVars, wsConnected, wsInbox, netVars, isSyncing,
                 sync, client, req, hist>>

\* server/index.js wss.on('connection') and ws.on('close')
WsOpen ==
  /\ ~wsConnected
  /\ wsConnected' = TRUE
  /\ UNCHANGED <<storeVars, queueVars, server, wsInbox, netVars, isSyncing, sync,
                 client, req, hist>>

WsClose ==
  /\ wsConnected
  /\ wsConnected' = FALSE
  /\ UNCHANGED <<storeVars, queueVars, server, wsInbox, netVars, isSyncing, sync,
                 client, req, hist>>

(***************************************************************************)
(* Repository calls (data/indexedDbRepository.js) made by caller c: the UI *)
(* or the push handler.                                                    *)
(***************************************************************************)
EnqueueOp(operation, data) ==
  /\ queue' = Enqueue(queue, nextKey, operation, data, nextKey)
  /\ nextKey' = nextKey + 1

\* add(property): local put, cache, notify; then the remote create when
\* isNetworkOnline(), else the enqueue
AddCall(c, v, localId) ==
  /\ SetStore(RepoAddLocal(St, Rec(localId, NoId, v)))
  /\ IF IsNetworkOnline
     THEN /\ req' = [req EXCEPT ![c] = Sent("POST", CreateData(NoId, v))]
          /\ client' = [client EXCEPT ![c] =
                          [pc |-> "addwait", op |-> "create", data |-> CreateData(localId, v)]]
          /\ UNCHANGED queueVars
     ELSE /\ EnqueueOp("create", CreateData(localId, v))
          /\ UNCHANGED <<req, client>>

\* A faulty variant of UpdateCall: a record without serverId is sent or
\* queued like any other.
UpdateCallNeverDefers(c, id, v) ==
  LET st == RepoUpdateLocal(St, Rec(id, NoId, v))
      updatedProperty == DbGet(st.db, id)
  IN /\ SetStore(st)
     /\ IF IsNetworkOnline
        THEN /\ req' = [req EXCEPT ![c] = Sent("PUT", UpdateData(updatedProperty))]
             /\ client' = [client EXCEPT ![c] =
                             [pc |-> "updwait", op |-> "update",
                              data |-> UpdateData(updatedProperty)]]
             /\ UNCHANGED queueVars
        ELSE /\ EnqueueOp("update", UpdateData(updatedProperty))
             /\ UNCHANGED <<req, client>>

\* update(property), the record being in the object store
UpdateCall(c, id, v) ==
  LET st == RepoUpdateLocal(St, Rec(id, NoId, v))
      updatedProperty == DbGet(st.db, id)
  IN /\ SetStore(st)
     /\ IF IsNetworkOnline /\ updatedProperty.serverId # NoId
        THEN /\ req' = [req EXCEPT ![c] = Sent("PUT", UpdateData(updatedProperty))]
             /\ client' = [client EXCEPT ![c] =
                             [pc |-> "updwait", op |-> "update",
                              data |-> UpdateData(updatedProperty)]]
             /\ UNCHANGED queueVars
        ELSE IF updatedProperty.serverId = NoId
        THEN UNCHANGED <<req, client, queueVars>>
        ELSE /\ EnqueueOp("update", UpdateData(updatedProperty))
             /\ UNCHANGED <<req, client>>

\* remove(id) on store state st, the record being in the object store
RemoveCall(c, st, id) ==
  LET serverId == DbGet(st.db, id).serverId
  IN /\ SetStore(RepoRemoveLocal(st, id))
     /\ IF IsNetworkOnline /\ serverId # NoId
        THEN /\ req' = [req EXCEPT ![c] = Sent("DELETE", DeleteData(serverId))]
             /\ client' = [client EXCEPT ![c] =
                             [pc |-> "remwait", op |-> "delete", data |-> DeleteData(serverId)]]
             /\ UNCHANGED queueVars
        ELSE IF serverId # NoId
        THEN /\ EnqueueOp("delete", DeleteData(serverId))
             /\ UNCHANGED <<req, client>>
        ELSE UNCHANGED <<req, client, queueVars>>

\* The direct-replay oracle: the records the remote authority would hold
\* had every repository call of the UI been made directly against it, each
\* under the key by which the local store knows (or would know) it.
ReplayAdd(replay, key, v) == replay \cup {[key |-> key, v |-> v]}

ReplayUpdate(replay, key, v) ==
  {IF r.key = key THEN [key |-> key, v |-> v] ELSE r : r \in replay}

ReplayRemove(replay, key) == {r \in replay : r.key # key}

UiAdd(v) ==
  /\ client["ui"].pc = "idle"
  /\ hist.ops < MaxOps
  /\ hist' = [hist EXCEPT !.ops = @ + 1,
                          !.replay = ReplayAdd(@, LocalId(hist.ops + 1), v)]
  /\ AddCall("ui", v, LocalId(hist.ops + 1))
  /\ UNCHANGED <<server, wsConnected, wsInbox, netVars, isSyncing, sync>>

UiUpdate(id, v) ==
  /\ client["ui"].pc = "idle"
  /\ hist.ops < MaxOps
  /\ id \in DbIds(db)
  /\ hist' = [hist EXCEPT !.ops = @ + 1, !.replay = ReplayUpdate(@, id, v)]
  /\ UpdateCall("ui", id, v)
  /\ UNCHANGED <<server, wsConnected, wsInbox, netVars, isSyncing, sync>>

UiRemove(id) ==
  /\ client["ui"].pc = "idle"
  /\ hist.ops < MaxOps
  /\ id \in DbIds(db)
  /\ hist' = [hist EXCEPT !.ops = @ + 1, !.replay = ReplayRemove(@, id)]
  /\ RemoveCall("ui", St, id)
  /\ UNCHANGED <<server, wsConnected, wsInbox, netVars, isSyncing, sync>>

\* the error add rejects with when a step after the local write throws
EnqueueFailed == Err(0, "Error after creating property: Failed to enqueue operation", "")

\* add(property) while unreachable, the queue's objectStore.add failing:
\* the record is stored and notified, enqueue rejects, and add rejects
UiAddEnqueueFails(v) ==
  /\ client["ui"].pc = "idle"
  /\ ~IsNetworkOnline
  /\ hist.ops < MaxOps
  /\ hist.faults < MaxFaults
  /\ hist' = [hist EXCEPT !.ops = @ + 1, !.faults = @ + 1,
                          !.replay = ReplayAdd(@, LocalId(hist.ops + 1), v),
                          !.thrown = EnqueueFailed]
  /\ SetStore(RepoAddLocal(St, Rec(LocalId(hist.ops + 1), NoId, v)))
  /\ UNCHANGED <<queueVars, server, wsConnected, wsInbox, netVars, isSyncing, sync,
                 client, req>>

\* The continuation of add / update / remove once the remote call settled.
ClientResponse(c) ==
  /\ client[c].pc \in {"addwait", "updwait", "remwait"}
  /\ req[c].st = "done"
  /\ req' = [req EXCEPT ![c] = NoReq]
  /\ client' = [client EXCEPT ![c] = IdleClient]
  /\ IF req[c].err # NoErr
     THEN /\ EnqueueOp(client[c].op, client[c].data)
          /\ UNCHANGED storeVars
     ELSE /\ UNCHANGED queueVars
          /\ CASE client[c].pc = "addwait" ->
                    SetStore(UpdateLocalId(St, client[c].data.localId, req[c].body[1].id))
               [] client[c].pc = "updwait" ->
                    SetStore(Upsert(St, req[c].body[1]))
               [] client[c].pc = "remwait" ->
                    UNCHANGED storeVars
  /\ UNCHANGED <<server, wsConnected, wsInbox, netVars, isSyncing, sync, hist>>

\* the error update and remove reject with when objectStore.get(id) finds
\* nothing
PropertyNotFound == Err(0, "Property with ID not found", "")

\* A faulty variant of UpdateMissing: the record is written all the same.
UpdateMissingWrites(st, property) == Upsert(st, property)

\* update(property), no record being stored under property.id: the call
\* rejects before any write
UpdateMissing(st, property) == st

\* remove(id), no record being stored under id: the call rejects before any
\* delete
RemoveMissing(st, id) == st

\* The identifiers the UI can hold: those of the list loaded at start, of the
\* snapshots handed to its observer, and of the records it added.
Shown == {1} \cup Ids(notified) \cup {LocalId(n) : n \in 1..hist.ops}

\* The UI saves an edit of a record that is no longer stored under the
\* identifier the UI holds.
UiUpdateMissing(id, v) ==
  /\ client["ui"].pc = "idle"
  /\ hist.ops < MaxOps
  /\ id \notin DbIds(db)
  /\ hist' = [hist EXCEPT !.ops = @ + 1, !.thrown = PropertyNotFound]
  /\ SetStore(UpdateMissing(St, Rec(id, NoId, v)))
  /\ UNCHANGED <<queueVars, server, wsConnected, wsInbox, netVars, isSyncing, sync,
                 client, req>>

\* The UI deletes a record that is no longer stored under the identifier the
\* UI holds.
UiRemoveMissing(id) ==
  /\ client["ui"].pc = "idle"
  /\ hist.ops < MaxOps
  /\ id \notin DbIds(db)
  /\ hist' = [hist EXCEPT !.ops = @ + 1, !.thrown = PropertyNotFound]
  /\ SetStore(RemoveMissing(St, id))
  /\ UNCHANGED <<queueVars, server, wsConnected, wsInbox, netVars, isSyncing, sync,
                 client, req>>

\* A component subscribes callback to the repository (subscribe).
Subscribe(callback) ==
  /\ callback \notin Subscribed(St.observer)
  /\ SetStore([St EXCEPT !.observer = ObserverSubscribe(@, callback)])
  /\ UNCHANGED <<queueVars, server, wsConnected, wsInbox, netVars, isSyncing, sync,
                 client, req, hist>>

\* The component calls the handle subscribe returned.
Unsubscribe(callback) ==
  /\ callback \in Subscribed(St.observer)
  /\ SetStore([St EXCEPT !.observer = ObserverUnsubscribe(@, callback)])
  /\ UNCHANGED <<queueVars, server, wsConnected, wsInbox, netVars, isSyncing, sync,
                 client, req, hist>>

\* A call of the client failed with error: the message for the user is made
\* from it.
ShowError(error) ==
  /\ hist' = [hist EXCEPT !.thrown = error, !.shown = GetFriendlyErrorMessage(error)]
  /\ UNCHANGED <<storeVars, queueVars, server, wsConnected, wsInbox, netVars,
                 isSyncing, sync, client, req>>

\* Another client of the same server deletes record id: the route handles
\* its request and broadcasts the change.
OtherClientDelete(id) ==
  /\ hist.remote < MaxRemote
  /\ id \in Ids(server.properties)
  /\ hist' = [hist EXCEPT !.remote = @ + 1]
  /\ LET out == Route(Sent("DELETE", DeleteData(id)))
     IN server' = out.srv /\ Broadcast(out.push)
  /\ UNCHANGED <<storeVars, queueVars, wsConnected, netVars, isSyncing, sync,
                 client, req>>

\* App.jsx handleWebSocketMessage
WsHandle ==
  /\ client["ws"].pc = "idle"
  /\ wsInbox # <<>>
  /\ wsInbox' = Tail(wsInbox)
  /\ LET message == Head(wsInbox)
         localProperties == RepoGetAll(St)
         hits == {i \in 1..Len(localProperties.cache) :
                    \/ localProperties.cache[i].serverId = message.data.id
                    \/ localProperties.cache[i].id = message.data.id}
     IN IF message.event \in {"created", "updated"}
        THEN /\ SetStore(Upsert(St, message.data))
             /\ UNCHANGED <<req, client, queueVars>>
        ELSE IF hits # {} /\
                localProperties.cache[CHOOSE i \in hits : \A k \in hits : i <= k].id
                  \in DbIds(db)
        THEN RemoveCall("ws", localProperties,
               localProperties.cache[CHOOSE i \in hits : \A k \in hits : i <= k].id)
        ELSE /\ SetStore(localProperties)
             /\ UNCHANGED <<req, client, queueVars>>
  /\ UNCHANGED <<server, wsConnected, netVars, isSyncing, sync, hist>>

(***************************************************************************)
(* The sync service (services/syncService.js).                             *)
(***************************************************************************)
\* What a sequence does once its syncPendingOperations() call has returned
\* {success, failed}: the reconnect sequence waits the settle delay, the
\* start-up sequence goes on to reload the list.
AfterPush(s, sy, success, failed) ==
  [sy EXCEPT !.pc = IF s = Boot THEN "bootfinish" ELSE "settle",
             !.success = success, !.failed = failed, !.returned = TRUE,
             !.pendingOps = <<>>, !.i = 0]

\* A faulty variant of SpoGuard: the isSyncing flag is set but never tested.
SpoGuardMissing(s, sy) ==
  /\ isSyncing' = TRUE
  /\ sync' = [sync EXCEPT ![s] = [sy EXCEPT !.pc = "qread"]]

\* syncPendingOperations() from the isSyncing guard on: a second call is a
\* no-op, the first one sets the flag and reads the queue
SpoGuard(s, sy) ==
  IF isSyncing
  THEN /\ sync' = [sync EXCEPT ![s] = [AfterPush(s, sy, 0, 0) EXCEPT !.skipped = TRUE]]
       /\ UNCHANGED isSyncing
  ELSE /\ isSyncing' = TRUE
       /\ sync' = [sync EXCEPT ![s] = [sy EXCEPT !.pc = "qread"]]

\* syncPendingOperations() from its first line: the grace wait when offline
SpoEnter(s, sy) ==
  IF ~IsNetworkOnline
  THEN /\ sync' = [sync EXCEPT ![s] = [sy EXCEPT !.pc = "grace", !.waited = TRUE]]
       /\ UNCHANGED isSyncing
  ELSE SpoGuard(s, sy)

\* A faulty variant of SpoGrace: the drain goes on without the re-check.
SpoGraceDrains(s) ==
  /\ sync[s].pc = "grace"
  /\ SpoGuard(s, sync[s])
  /\ UNCHANGED <<storeVars, queueVars, server, wsConnected, wsInbox, netVars,
                 client, req, hist>>

\* the 500 ms grace wait is over: re-check once
SpoGrace(s) ==
  /\ sync[s].pc = "grace"
  /\ IF ~IsNetworkOnline
     THEN /\ sync' = [sync EXCEPT ![s] = AfterPush(s, sync[s], 0, 0)]
          /\ UNCHANGED isSyncing
     ELSE SpoGuard(s, sync[s])
  /\ UNCHANGED <<storeVars, queueVars, server, wsConnected, wsInbox, netVars,
                 client, req, hist>>

\* offlineQueue.getAll() resolved: nothing pending, or the loop starts
SpoQueueRead(s) ==
  /\ sync[s].pc = "qread"
  /\ LET pendingOps == QueueGetAll(queue)
     IN IF pendingOps = <<>>
        THEN /\ isSyncing' = FALSE
             /\ sync' = [sync EXCEPT ![s] = AfterPush(s, @, 0, 0)]
        ELSE /\ sync' = [sync EXCEPT ![s] =
                           [@ EXCEPT !.pc = "loop", !.pendingOps = pendingOps,
                                     !.i = 1, !.success = 0, !.failed = 0]]
             /\ UNCHANGED isSyncing
  /\ UNCHANGED <<storeVars, queueVars, server, wsConnected, wsInbox, netVars,
                 client, req, hist>>

\* A faulty variant of SpoQueueReadFails: the outer catch rethrows without
\* clearing the flag.
SpoQueueReadFailsKeepsFlag(s) ==
  /\ sync[s].pc = "qread"
  /\ hist.faults < MaxFaults
  /\ hist' = [hist EXCEPT !.faults = @ + 1]
  /\ sync' = [sync EXCEPT ![s] =
                [@ EXCEPT !.pc = IF s = Boot THEN "bootfinish" ELSE "idle",
                          !.threw = TRUE]]
  /\ UNCHANGED <<storeVars, queueVars, server, wsConnected, wsInbox, netVars,
                 isSyncing, client, req>>

\* offlineQueue.getAll() rejected (the IndexedDB request failed): the outer
\* catch clears the flag and rethrows; the reconnect listener's catch ends
\* the sequence, the start-up sequence goes on to reload the list
SpoQueueReadFails(s) ==
  /\ sync[s].pc = "qread"
  /\ hist.faults < MaxFaults
  /\ hist' = [hist EXCEPT !.faults = @ + 1]
  /\ isSyncing' = FALSE
  /\ sync' = [sync EXCEPT ![s] =
                [@ EXCEPT !.pc = IF s = Boot THEN "bootfinish" ELSE "idle",
                          !.threw = TRUE]]
  /\ UNCHANGED <<storeVars, queueVars, server, wsConnected, wsInbox, netVars,
                 client, req>>

\* the request the drain sends for a queued operation
DrainRequest(op) ==
  CASE op.operation = "create" -> Sent("POST", CreateData(NoId, op.data.v))
    [] op.operation = "update" -> Sent("PUT", op.data)
    [] op.operation = "delete" -> Sent("DELETE", DeleteData(op.data.id))

\* A faulty variant of SpoLoop: reachability is not checked again.
SpoLoopNoRecheck(s) ==
  /\ sync[s].pc = "loop"
  /\ IF sync[s].i > Len(sync[s].pendingOps)
     THEN /\ isSyncing' = FALSE
          /\ sync' = [sync EXCEPT ![s] = AfterPush(s, @, @.success, @.failed)]
          /\ UNCHANGED <<queue, req>>
     ELSE LET op == sync[s].pendingOps[sync[s].i]
          IN /\ queue' = IncrementAttempts(queue, op.id)
             /\ req' = [req EXCEPT ![s] = DrainRequest(op)]
             /\ sync' = [sync EXCEPT ![s].pc = "wait"]
             /\ UNCHANGED isSyncing
  /\ UNCHANGED <<storeVars, nextKey, server, wsConnected, wsInbox, netVars,
                 client, hist>>

\* the top of the for loop: the end of the drain, the abort when
\* reachability is lost, or incrementAttempts and the operation's request
SpoLoop(s) ==
  /\ sync[s].pc = "loop"
  /\ IF sync[s].i > Len(sync[s].pendingOps) \/ ~IsNetworkOnline
     THEN /\ isSyncing' = FALSE
          /\ sync' = [sync EXCEPT ![s] = AfterPush(s, @, @.success, @.failed)]
          /\ UNCHANGED <<queue, req>>
     ELSE LET op == sync[s].pendingOps[sync[s].i]
          IN /\ queue' = IncrementAttempts(queue, op.id)
             /\ req' = [req EXCEPT ![s] = DrainRequest(op)]
             /\ sync' = [sync EXCEPT ![s].pc = "wait"]
             /\ UNCHANGED isSyncing
  /\ UNCHANGED <<storeVars, nextKey, server, wsConnected, wsInbox, netVars,
                 client, hist>>

\* A faulty variant of SpoIncrementFails: the rejection of the IndexedDB
\* request escapes incrementAttempts and ends the drain in the outer catch.
SpoIncrementFailsAborts(s) ==
  /\ sync[s].pc = "loop"
  /\ sync[s].i <= Len(sync[s].pendingOps) /\ IsNetworkOnline
  /\ hist.faults < MaxFaults
  /\ hist' = [hist EXCEPT !.faults = @ + 1]
  /\ isSyncing' = FALSE
  /\ sync' = [sync EXCEPT ![s] =
                [@ EXCEPT !.pc = IF s = Boot THEN "bootfinish" ELSE "idle",
                          !.incFailed = sync[s].i, !.threw = TRUE]]
  /\ UNCHANGED <<storeVars, queueVars, server, wsConnected, wsInbox, netVars,
                 client, req>>

\* the top of the for loop when the IndexedDB request of incrementAttempts
\* fails: incrementAttempts catches and logs the error and resolves, the
\* counter stays as it was and the operation's request is sent
SpoIncrementFails(s) ==
  /\ sync[s].pc = "loop"
  /\ sync[s].i <= Len(sync[s].pendingOps) /\ IsNetworkOnline
  /\ hist.faults < MaxFaults
  /\ hist' = [hist EXCEPT !.faults = @ + 1]
  /\ req' = [req EXCEPT ![s] = DrainRequest(sync[s].pendingOps[sync[s].i])]
  /\ sync' = [sync EXCEPT ![s] = [@ EXCEPT !.pc = "wait", !.incFailed = sync[s].i]]
  /\ UNCHANGED <<storeVars, queueVars, server, wsConnected, wsInbox, netVars,
                 isSyncing, client>>

\* how the drain settles an operation whose remote call threw error
\* (NoErr: it succeeded): "success", "dropped" (failed and dequeued) or
\* "kept" (failed and left in the queue)
DrainOutcome(op, error) ==
  IF error = NoErr THEN "success"
  ELSE IF op.operation = "delete" /\ IsAlreadyDeleted(error) THEN "success"
  ELSE IF ~IsNetworkError(error) THEN "dropped"
  ELSE "kept"

\* A faulty variant of DrainCreateLocal: the remap is called without the
\* check that the record still exists.
DrainCreateLocalRemapOnly(st, op, result) ==
  IF op.data.localId # NoId
  THEN UpdateLocalId(st, op.data.localId, result.id)
  ELSE Upsert(st, result)

\* what a successful queued create does to the local store
DrainCreateLocal(st, op, result) ==
  IF op.data.localId # NoId
  THEN IF RepoGetById(st, op.data.localId) # NoRec
       THEN UpdateLocalId(st, op.data.localId, result.id)
       ELSE Upsert(st, result)
  ELSE Upsert(st, result)

\* the remote call of the current operation settled
SpoResponse(s) ==
  /\ sync[s].pc = "wait"
  /\ req[s].st = "done"
  /\ LET op == sync[s].pendingOps[sync[s].i]
         error == IF req[s].err = NoErr THEN NoErr ELSE ClientError(req[s].err)
         outcome == DrainOutcome(op, error)
     IN /\ IF req[s].err = NoErr /\ op.operation = "create"
           THEN SetStore(DrainCreateLocal(St, op, req[s].body[1]))
           ELSE UNCHANGED storeVars
        /\ queue' = IF outcome = "kept" THEN queue ELSE Dequeue(queue, op.id)
        /\ sync' = [sync EXCEPT ![s] =
             [@ EXCEPT !.pc = "loop", !.i = @ + 1,
                       !.success = IF outcome = "success" THEN @ + 1 ELSE @,
                       !.failed = IF outcome = "success" THEN @ ELSE @ + 1,
                       !.error = error]]
  /\ req' = [req EXCEPT ![s] = NoReq]
  /\ UNCHANGED <<nextKey, server, wsConnected, wsInbox, netVars, isSyncing,
                 client, hist>>

\* the remote call of the current operation succeeded and the dequeue that
\* follows it rejects (the IndexedDB request fails): the catch of the loop
\* counts the operation as failed; the error has no status, so it is
\* classified as a network error and the operation stays in the queue
SpoDequeueFails(s) ==
  /\ sync[s].pc = "wait"
  /\ req[s].st = "done"
  /\ req[s].err = NoErr
  /\ hist.faults < MaxFaults
  /\ hist' = [hist EXCEPT !.faults = @ + 1]
  /\ LET op == sync[s].pendingOps[sync[s].i]
         error == Err(0, "Failed to dequeue operation", "")
     IN /\ IF op.operation = "create"
           THEN SetStore(DrainCreateLocal(St, op, req[s].body[1]))
           ELSE UNCHANGED storeVars
        /\ IsNetworkError(error)
        /\ sync' = [sync EXCEPT ![s] =
             [@ EXCEPT !.pc = "loop", !.i = @ + 1, !.failed = @ + 1, !.error = error]]
  /\ req' = [req EXCEPT ![s] = NoReq]
  /\ UNCHANGED <<queueVars, server, wsConnected, wsInbox, netVars, isSyncing, client>>

\* syncFromServer() starts: serverRepo.getAll() is sent
PullStart(s, sy) ==
  /\ sync' = [sync EXCEPT ![s] = [sy EXCEPT !.pc = "pullwait"]]
  /\ req' = [req EXCEPT ![s] = Sent("GET", NoData)]

\* the reconnect sequence's settle delay is over
Settle(s) ==
  /\ sync[s].pc = "settle"
  /\ PullStart(s, [sync[s] EXCEPT !.settled = TRUE])
  /\ UNCHANGED <<storeVars, queueVars, server, wsConnected, wsInbox, netVars,
                 isSyncing, client, hist>>

\* A faulty variant of DirectClear: nothing is deleted.
DirectClearNone(st, localProps) == st

\* the direct clear of the object store: every record of localProps
DirectClear(st, localProps) ==
  Store({r \in st.db : r.id \notin Ids(localProps)}, st.cache, st.isNull, st.init,
        st.notified, st.observer)

\* serverRepo.getAll() settled: on an error the sequence ends (the start-up
\* sequence goes on to reload the list); else the local records are cleared
PullResponse(s) ==
  /\ sync[s].pc = "pullwait"
  /\ req[s].st = "done"
  /\ req' = [req EXCEPT ![s] = NoReq]
  /\ IF req[s].err # NoErr
     THEN /\ sync' = [sync EXCEPT ![s] =
                        [@ EXCEPT !.pc = IF s = Boot THEN "bootfinish" ELSE "idle"]]
          /\ UNCHANGED storeVars
     ELSE LET localProps == RepoGetAll(St)
          IN /\ SetStore(ClearCache(DirectClear(localProps, localProps.cache)))
             /\ sync' = [sync EXCEPT ![s] =
                           [@ EXCEPT !.pc = "upsert", !.j = 1,
                                     !.localProps = localProps.cache,
                                     !.serverProperties = req[s].body]]
  /\ UNCHANGED <<queueVars, server, wsConnected, wsInbox, netVars, isSyncing,
                 client, hist>>

\* serverRepo.getAll() succeeded and the direct clear of the object store
\* fails (indexedDB.open or the transaction reports an error): the catch
\* falls back to localRepo.remove() for every record of localProps
PullClearFails(s) ==
  /\ sync[s].pc = "pullwait"
  /\ req[s].st = "done"
  /\ req[s].err = NoErr
  /\ hist.faults < MaxFaults
  /\ hist' = [hist EXCEPT !.faults = @ + 1]
  /\ Len(RepoGetAll(St).cache) > 0
  /\ req' = [req EXCEPT ![s] = NoReq]
  /\ LET localProps == RepoGetAll(St)
     IN /\ SetStore(localProps)
        /\ sync' = [sync EXCEPT ![s] =
                      [@ EXCEPT !.pc = "fallback", !.k = 1,
                                !.localProps = localProps.cache,
                                !.serverProperties = req[s].body]]
  /\ UNCHANGED <<queueVars, server, wsConnected, wsInbox, netVars, isSyncing, client>>

\* one turn of the fallback loop: localRepo.remove(prop.id) up to its remote
\* call or its enqueue (a record that is gone makes remove reject, which the
\* loop catches); after the last turn clearCache() and the upsert loop
PullFallbackRemove(s) ==
  /\ sync[s].pc = "fallback"
  /\ IF sync[s].k > Len(sync[s].localProps)
     THEN /\ SetStore(ClearCache(St))
          /\ sync' = [sync EXCEPT ![s] = [@ EXCEPT !.pc = "upsert", !.j = 1]]
          /\ UNCHANGED <<queueVars, req>>
     ELSE LET id == sync[s].localProps[sync[s].k].id
              serverId == DbGet(db, id).serverId
          IN IF id \notin DbIds(db)
             THEN /\ sync' = [sync EXCEPT ![s].k = @ + 1]
                  /\ UNCHANGED <<storeVars, queueVars, req>>
             ELSE /\ SetStore(RepoRemoveLocal(St, id))
                  /\ IF IsNetworkOnline /\ serverId # NoId
                     THEN /\ req' = [req EXCEPT ![s] = Sent("DELETE", DeleteData(serverId))]
                          /\ sync' = [sync EXCEPT ![s].pc = "fallbackwait"]
                          /\ UNCHANGED queueVars
                     ELSE IF serverId # NoId
                     THEN /\ EnqueueOp("delete", DeleteData(serverId))
                          /\ sync' = [sync EXCEPT ![s].k = @ + 1]
                          /\ UNCHANGED req
                     ELSE /\ sync' = [sync EXCEPT ![s].k = @ + 1]
                          /\ UNCHANGED <<queueVars, req>>
  /\ UNCHANGED <<server, wsConnected, wsInbox, netVars, isSyncing, client, hist>>

\* the remote delete of a fallback remove() settled: on an error the delete
\* is enqueued; the loop goes on
PullFallbackResponse(s) ==
  /\ sync[s].pc = "fallbackwait"
  /\ req[s].st = "done"
  /\ req' = [req EXCEPT ![s] = NoReq]
  /\ IF req[s].err # NoErr
     THEN EnqueueOp("delete", req[s].data)
     ELSE UNCHANGED queueVars
  /\ sync' = [sync EXCEPT ![s] = [@ EXCEPT !.pc = "fallback", !.k = @ + 1]]
  /\ UNCHANGED <<storeVars, server, wsConnected, wsInbox, netVars, isSyncing,
                 client, hist>>

\* the upsert loop of syncFromServer(), then clearCache(), getAll() and the
\* return; the start-up sequence then calls syncPendingOperations()
PullUpsert(s) ==
  /\ sync[s].pc = "upsert"
  /\ IF sync[s].j <= Len(sync[s].serverProperties)
     THEN /\ SetStore(Upsert(St, sync[s].serverProperties[sync[s].j]))
          /\ sync' = [sync EXCEPT ![s].j = @ + 1]
          /\ UNCHANGED isSyncing
     ELSE /\ SetStore(RepoGetAll(ClearCache(St)))
          /\ IF s = Boot
             THEN SpoEnter(s, sync[s])
             ELSE sync' = [sync EXCEPT ![s].pc = "idle"] /\ UNCHANGED isSyncing
  /\ UNCHANGED <<queueVars, server, wsConnected, wsInbox, netVars, client, req, hist>>

\* getAll() reading the object store: request.onsuccess replaces the
\* snapshot by the records of the store
Reload(st) == Store(st.db, SortedById(st.db), FALSE, TRUE, st.notified, st.observer)

\* one turn of the upsert loop of syncFromServer()
PullUpsertOne(s) ==
  /\ sync[s].j <= Len(sync[s].serverProperties)
  /\ PullUpsert(s)

\* the loop of syncFromServer() is over: clearCache() and the call of
\* getAll(), whose IndexedDB request is now pending
PullClearCache(s) ==
  /\ sync[s].pc = "upsert"
  /\ sync[s].j > Len(sync[s].serverProperties)
  /\ SetStore(ClearCache(St))
  /\ sync' = [sync EXCEPT ![s].pc = "reload"]
  /\ UNCHANGED <<queueVars, server, wsConnected, wsInbox, netVars, isSyncing,
                 client, req, hist>>

\* the request of that getAll() succeeded: the snapshot is reloaded and
\* syncFromServer() returns
PullGetAll(s) ==
  /\ sync[s].pc = "reload"
  /\ SetStore(Reload(St))
  /\ sync' = [sync EXCEPT ![s].pc = "idle"]
  /\ UNCHANGED <<queueVars, server, wsConnected, wsInbox, netVars, isSyncing,
                 client, req, hist>>

\* App.jsx initializeData, after checkServer() and the 100 ms wait
BootDecide ==
  /\ sync[Boot].pc = "bootwait"
  /\ IF serverReachable
     THEN PullStart(Boot, sync[Boot])
     ELSE sync' = [sync EXCEPT ![Boot].pc = "bootfinish"] /\ UNCHANGED req
  /\ UNCHANGED <<storeVars, queueVars, server, wsConnected, wsInbox, netVars,
                 isSyncing, client, hist>>

\* App.jsx initializeData: clearCache(), getAll(), setProperties(): the list
\* is shown; then the App subscribes to the repository
BootFinish ==
  /\ sync[Boot].pc = "bootfinish"
  /\ LET st == RepoGetAll(ClearCache(St))
     IN SetStore(Store(st.db, st.cache, st.isNull, st.init, st.cache,
                       ObserverSubscribe(st.observer, "app")))
  /\ sync' = [sync EXCEPT ![Boot] = [IdleSync EXCEPT !.pc = "done"]]
  /\ UNCHANGED <<queueVars, server, wsConnected, wsInbox, netVars, isSyncing,
                 client, req, hist>>

(***************************************************************************)
(* The network status monitor (utils/networkStatus.js).                    *)
(***************************************************************************)
\* A faulty variant of NotifyListeners: the listener starts with the pull,
\* without calling syncPendingOperations() first.
NotifyListenersPullFirst(effectiveStatus) ==
  IF effectiveStatus /\ \E s \in Seqs : sync[s].pc = "idle"
  THEN LET s == CHOOSE t \in Seqs : sync[t].pc = "idle"
       IN /\ sync' = [sync EXCEPT ![s] = [IdleSync EXCEPT !.pc = "settle"]]
          /\ UNCHANGED isSyncing
  ELSE UNCHANGED <<sync, isSyncing>>

\* notifyListeners(): the sync service's listener starts a reconnect
\* sequence when the effective status is true; the sequence runs
\* syncPendingOperations() up to its first suspension
NotifyListeners(effectiveStatus) ==
  IF effectiveStatus /\ \E s \in Seqs : sync[s].pc = "idle"
  THEN LET s == CHOOSE t \in Seqs : sync[t].pc = "idle"
       IN SpoGuard(s, IdleSync)
  ELSE UNCHANGED <<sync, isSyncing>>

\* window 'online': isOnline = true and a liveness probe is sent
BrowserOnline ==
  /\ ~isOnline
  /\ "online" \notin probes
  /\ hist.net < MaxNetEvents
  /\ hist' = [hist EXCEPT !.net = @ + 1]
  /\ isOnline' = TRUE
  /\ probes' = probes \cup {"online"}
  /\ UNCHANGED <<storeVars, queueVars, server, wsConnected, wsInbox,
                 serverReachable, isSyncing, sync, client, req>>

\* window 'offline'
BrowserOffline ==
  /\ isOnline
  /\ hist.net < MaxNetEvents
  /\ hist' = [hist EXCEPT !.net = @ + 1, !.heard = FALSE]
  /\ isOnline' = FALSE
  /\ serverReachable' = FALSE
  /\ NotifyListeners(FALSE)
  /\ UNCHANGED <<storeVars, queueVars, server, wsConnected, wsInbox, probes,
                 client, req>>

\* the 10 s interval: a probe while online and the server not yet reachable
IntervalTick ==
  /\ isOnline /\ ~serverReachable
  /\ "interval" \notin probes
  /\ probes' = probes \cup {"interval"}
  /\ UNCHANGED <<storeVars, queueVars, server, wsConnected, wsInbox, isOnline,
                 serverReachable, isSyncing, sync, client, req, hist>>

\* checkServerConnectivity() settles with response.ok = ok (a timeout or a
\* network error: FALSE); what follows depends on who asked: the 'online'
\* handler calls notifyListeners(), the interval does when the probe
\* succeeded, initialize() ("init") and checkServer() ("boot") do not
ProbeDone(origin, ok) ==
  /\ origin \in probes
  /\ probes' = probes \ {origin}
  /\ serverReachable' = ok
  /\ CASE origin = "online" -> /\ NotifyListeners(isOnline /\ ok)
                               /\ hist' = [hist EXCEPT !.heard = isOnline /\ ok]
       [] origin = "interval" -> IF ok
                                 THEN /\ NotifyListeners(isOnline /\ ok)
                                      /\ hist' = [hist EXCEPT !.heard = isOnline /\ ok]
                                 ELSE UNCHANGED <<sync, isSyncing, hist>>
       [] origin = "init" -> UNCHANGED <<sync, isSyncing, hist>>
       [] origin = "boot" -> /\ sync' = [sync EXCEPT ![Boot].pc = "bootwait"]
                             /\ UNCHANGED <<isSyncing, hist>>
  /\ UNCHANGED <<storeVars, queueVars, server, wsConnected, wsInbox, isOnline,
                 client, req>>

\* The remote authority stops answering (the server process ends or the
\* route to it is lost) at a moment when no request is in flight and no
\* reconnect sequence is running.
RemoteStops ==
  /\ ~hist.down
  /\ \A p \in Procs : req[p].st # "sent"
  /\ \A s \in Seqs : sync[s].pc = "idle"
  /\ hist' = [hist EXCEPT !.down = TRUE]
  /\ UNCHANGED <<storeVars, queueVars, server, wsConnected, wsInbox, netVars,
                 isSyncing, sync, client, req>>

\* checkServerConnectivity() settles while the remote authority answers
ProbeWhileUp(origin, ok) == ~hist.down /\ ProbeDone(origin, ok)

\* checkServerConnectivity() settles once the remote authority has stopped
\* answering: fetch rejects or times out
ProbeWhileDown(origin) == hist.down /\ ProbeDone(origin, FALSE)

\* subscribeToSyncStatus(callback): the callback is registered and handed
\* { isSyncing, pendingOperations: 0 } at once; the queue is not read.
\* hist.status keeps the SyncStatus most recently handed to the observer.
SubscribeToSyncStatus ==
  /\ hist.status = <<>>
  /\ hist' = [hist EXCEPT !.status = <<[isSyncing |-> isSyncing, pendingOperations |-> 0]>>]
  /\ UNCHANGED <<storeVars, queueVars, server, wsConnected, wsInbox, netVars,
                 isSyncing, sync, client, req>>

(***************************************************************************)
(* Initial states.                                                         *)
(***************************************************************************)
\* The server's data file at start: records created in earlier sessions, by
\* this client or by others.
Seeds ==
  {<<>>, <<Rec(1, NoId, "a")>>, <<Rec(1, NoId, "a"), Rec(2, NoId, "a")>>}

\* The local object store at start, as an earlier session left it: empty, a
\* record created while reachable (remapped: it carries its serverId), or a
\* record written by a pull (the server's copy, which has no serverId).
Locals == {{}, {Rec(1, 1, "a")}, {Rec(1, NoId, "a")}}

\* The application is running: its start-up ended with the remote
\* authority unreachable (the browser offline, or the liveness probes
\* failed), so the list was loaded from the local store alone.
Init ==
  /\ \E local \in Locals :
       /\ db = local
       /\ propertiesCache = SortedById(local)
  /\ cacheNull = FALSE
  /\ isInitialized = TRUE
  /\ notified = propertiesCache
  /\ subscribers = <<"app">>
  /\ delivered = [callback \in Observers |-> <<>>]
  /\ queue = <<>>
  /\ nextKey = 1
  /\ \E seed \in Seeds :
       /\ server = Srv(seed, 3)
       /\ hist = [ops |-> 0, faults |-> 0, net |-> 0, remote |-> 0,
                  replay |-> {[key |-> seed[i].id, v |-> seed[i].v] : i \in 1..Len(seed)},
                  heard |-> FALSE, thrown |-> NoErr,
                  calls |-> 0, issued |-> Ids(seed), shown |-> "", down |-> FALSE,
                  status |-> <<>>]
  /\ wsConnected = FALSE
  /\ wsInbox = <<>>
  /\ isOnline \in BOOLEAN
  /\ serverReachable = FALSE
  /\ probes = {}
  /\ isSyncing = FALSE
  /\ sync = [s \in Syncers |-> IF s = Boot THEN [IdleSync EXCEPT !.pc = "done"]
                               ELSE IdleSync]
  /\ client = [c \in Clients |-> IdleClient]
  /\ req = [p \in Procs |-> NoReq]

\* The browser is online and the remote authority is down at start.
InitServerDown == Init /\ isOnline

\* The browser is online, the remote authority is down, and the local store
\* is empty: an earlier session left nothing behind.
InitEmptyStore == InitServerDown /\ db = {}

\* The application is starting: the browser is online, the monitor's first
\* probe is in flight, the sync service has subscribed (and was handed
\* FALSE), and initializeData() has called checkServer().
InitBoot ==
  /\ \E local \in Locals :
       /\ db = local
       /\ propertiesCache = SortedById(local)
  /\ cacheNull = FALSE
  /\ isInitialized = TRUE
  /\ notified = <<>>
  /\ subscribers = <<>>
  /\ delivered = [callback \in Observers |-> <<>>]
  /\ queue = <<>>
  /\ nextKey = 1
  /\ \E seed \in Seeds :
       /\ server = Srv(seed, 3)
       /\ hist = [ops |-> 0, faults |-> 0, net |-> 0, remote |-> 0,
                  replay |-> {[key |-> seed[i].id, v |-> seed[i].v] : i \in 1..Len(seed)},
                  heard |-> FALSE, thrown |-> NoErr,
                  calls |-> 0, issued |-> Ids(seed), shown |-> "", down |-> FALSE,
                  status |-> <<>>]
  /\ wsConnected = FALSE
  /\ wsInbox = <<>>
  /\ isOnline = TRUE
  /\ serverReachable = FALSE
  /\ probes = {"init", "boot"}
  /\ isSyncing = FALSE
  /\ sync = [s \in Syncers |-> IF s = Boot THEN [IdleSync EXCEPT !.pc = "checking"]
                               ELSE IdleSync]
  /\ client = [c \in Clients |-> IdleClient]
  /\ req = [p \in Procs |-> NoReq]

\* The application is starting and an earlier session, which ended while
\* the remote authority was unreachable, left a record under a local
\* identifier and its create in the queue.
LeftBehind == LocalId(9)

InitBootPending ==
  /\ db = {Rec(LeftBehind, NoId, "a")}
  /\ propertiesCache = <<Rec(LeftBehind, NoId, "a")>>
  /\ cacheNull = FALSE
  /\ isInitialized = TRUE
  /\ notified = <<>>
  /\ subscribers = <<>>
  /\ delivered = [callback \in Observers |-> <<>>]
  /\ queue = <<QueueItem(1, "create", CreateData(LeftBehind, "a"), 1)>>
  /\ nextKey = 2
  /\ server = Srv(<<>>, 3)
  /\ hist = [ops |-> 0, faults |-> 0, net |-> 0, remote |-> 0,
             replay |-> {[key |-> LeftBehind, v |-> "a"]},
             heard |-> FALSE, thrown |-> NoErr,
             calls |-> 0, issued |-> {}, shown |-> "", down |-> FALSE,
                  status |-> <<>>]
  /\ wsConnected = FALSE
  /\ wsInbox = <<>>
  /\ isOnline = TRUE
  /\ serverReachable = FALSE
  /\ probes = {"init", "boot"}
  /\ isSyncing = FALSE
  /\ sync = [s \in Syncers |-> IF s = Boot THEN [IdleSync EXCEPT !.pc = "checking"]
                               ELSE IdleSync]
  /\ client = [c \in Clients |-> IdleClient]
  /\ req = [p \in Procs |-> NoReq]

\* A first session: nothing stored locally, nothing on the server.
InitFresh == Init /\ db = {} /\ server.properties = <<>>

(***************************************************************************)
(* Spec: the repository calls of the UI at any time, requests that may     *)
(* meet a fault, and the reconnect sequence once the periodic probe finds  *)
(* the remote authority.                                                   *)
(***************************************************************************)
Next ==
  \/ \E v \in Vals : UiAdd(v)
  \/ \E id \in DbIds(db), v \in Vals : UiUpdate(id, v)
  \/ \E id \in DbIds(db) : UiRemove(id)
  \/ ClientResponse("ui")
  \/ \E p \in Procs : ServerAnswer(p)
  \/ \E p \in Procs, fault \in Faults : RequestFault(p, fault)
  \/ IntervalTick
  \/ \E ok \in BOOLEAN : ProbeDone("interval", ok)
  \/ \E s \in Seqs : SpoQueueRead(s)
  \/ \E s \in Seqs : SpoLoop(s)
  \/ \E s \in Seqs : SpoResponse(s)
  \/ \E s \in Seqs : Settle(s)
  \/ \E s \in Seqs : PullResponse(s)
  \/ \E s \in Seqs : PullUpsert(s)

Spec == InitServerDown /\ [][Next]_vars

(***************************************************************************)
(* SpecOffline: the UI works while effective reachability is false; then   *)
(* the periodic probe finds the remote authority and the reconnect         *)
(* sequence runs, every remote call succeeding.                            *)
(***************************************************************************)
OfflineAdd(v) == ~IsNetworkOnline /\ UiAdd(v)

OfflineUpdate(id, v) == ~IsNetworkOnline /\ UiUpdate(id, v)

OfflineRemove(id) == ~IsNetworkOnline /\ UiRemove(id)

NextOffline ==
  \/ \E v \in Vals : OfflineAdd(v)
  \/ \E id \in DbIds(db), v \in Vals : OfflineUpdate(id, v)
  \/ \E id \in DbIds(db) : OfflineRemove(id)
  \/ \E p \in Procs : ServerAnswer(p)
  \/ IntervalTick
  \/ \E ok \in BOOLEAN : ProbeDone("interval", ok)
  \/ \E s \in Seqs : SpoQueueRead(s)
  \/ \E s \in Seqs : SpoLoop(s)
  \/ \E s \in Seqs : SpoResponse(s)
  \/ \E s \in Seqs : Settle(s)
  \/ \E s \in Seqs : PullResponse(s)
  \/ \E s \in Seqs : PullUpsert(s)

SpecOffline == InitServerDown /\ [][NextOffline]_vars

(***************************************************************************)
(* SpecRetry: SpecOffline with requests that may meet a fault.             *)
(***************************************************************************)
NextRetry ==
  \/ \E v \in Vals : OfflineAdd(v)
  \/ \E id \in DbIds(db), v \in Vals : OfflineUpdate(id, v)
  \/ \E id \in DbIds(db) : OfflineRemove(id)
  \/ \E p \in Procs : ServerAnswer(p)
  \/ \E p \in Procs, fault \in Faults : RequestFault(p, fault)
  \/ IntervalTick
  \/ \E ok \in BOOLEAN : ProbeDone("interval", ok)
  \/ \E s \in Seqs : SpoQueueRead(s)
  \/ \E s \in Seqs : SpoLoop(s)
  \/ \E s \in Seqs : SpoResponse(s)
  \/ \E s \in Seqs : Settle(s)
  \/ \E s \in Seqs : PullResponse(s)
  \/ \E s \in Seqs : PullUpsert(s)

SpecRetry == InitServerDown /\ [][NextRetry]_vars

(***************************************************************************)
(* SpecAdd: records are added to an empty store at any time, reachable or   *)
(* not; requests may meet a fault; the reconnect sequence runs when the     *)
(* probe succeeds.                                                         *)
(***************************************************************************)
NextAdd ==
  \/ \E v \in Vals : UiAdd(v)
  \/ ClientResponse("ui")
  \/ \E p \in Procs : ServerAnswer(p)
  \/ \E p \in Procs, fault \in Faults : RequestFault(p, fault)
  \/ IntervalTick
  \/ \E ok \in BOOLEAN : ProbeDone("interval", ok)
  \/ \E s \in Seqs : SpoQueueRead(s)
  \/ \E s \in Seqs : SpoLoop(s)
  \/ \E s \in Seqs : SpoResponse(s)
  \/ \E s \in Seqs : Settle(s)
  \/ \E s \in Seqs : PullResponse(s)
  \/ \E s \in Seqs : PullUpsert(s)

SpecAdd == InitEmptyStore /\ [][NextAdd]_vars

(***************************************************************************)
(* SpecStale: SpecOffline with a UI that also saves or deletes, at any      *)
(* time, a record that is no longer stored under the identifier the UI      *)
(* holds (it was remapped, removed, or cleared by a pull).                  *)
(***************************************************************************)
NextStale ==
  \/ \E v \in Vals : OfflineAdd(v)
  \/ \E id \in DbIds(db), v \in Vals : OfflineUpdate(id, v)
  \/ \E id \in DbIds(db) : OfflineRemove(id)
  \/ \E id \in Shown, v \in Vals : UiUpdateMissing(id, v)
  \/ \E id \in Shown : UiRemoveMissing(id)
  \/ \E p \in Procs : ServerAnswer(p)
  \/ IntervalTick
  \/ \E ok \in BOOLEAN : ProbeDone("interval", ok)
  \/ \E s \in Seqs : SpoQueueRead(s)
  \/ \E s \in Seqs : SpoLoop(s)
  \/ \E s \in Seqs : SpoResponse(s)
  \/ \E s \in Seqs : Settle(s)
  \/ \E s \in Seqs : PullResponse(s)
  \/ \E s \in Seqs : PullUpsert(s)

SpecStale == InitServerDown /\ [][NextStale]_vars

(***************************************************************************)
(* SpecPush: SpecOffline with the push channel: the server broadcasts each *)
(* change to the connected client, whose handler applies it.               *)
(***************************************************************************)
NextPush ==
  \/ \E v \in Vals : OfflineAdd(v)
  \/ \E id \in DbIds(db), v \in Vals : OfflineUpdate(id, v)
  \/ \E id \in DbIds(db) : OfflineRemove(id)
  \/ \E p \in Procs : ServerAnswer(p)
  \/ WsOpen
  \/ WsClose
  \/ WsHandle
  \/ IntervalTick
  \/ \E ok \in BOOLEAN : ProbeDone("interval", ok)
  \/ \E s \in Seqs : SpoQueueRead(s)
  \/ \E s \in Seqs : SpoLoop(s)
  \/ \E s \in Seqs : SpoResponse(s)
  \/ \E s \in Seqs : Settle(s)
  \/ \E s \in Seqs : PullResponse(s)
  \/ \E s \in Seqs : PullUpsert(s)

SpecPush == InitServerDown /\ [][NextPush]_vars

(***************************************************************************)
(* SpecShared: SpecPush with another client of the same server, which      *)
(* deletes records; the push handler's own repository call runs to its end. *)
(***************************************************************************)
NextShared ==
  \/ \E v \in Vals : OfflineAdd(v)
  \/ \E id \in DbIds(db), v \in Vals : OfflineUpdate(id, v)
  \/ \E id \in DbIds(db) : OfflineRemove(id)
  \/ \E id \in Ids(server.properties) : OtherClientDelete(id)
  \/ \E p \in Procs : ServerAnswer(p)
  \/ WsOpen
  \/ WsClose
  \/ WsHandle
  \/ ClientResponse("ws")
  \/ IntervalTick
  \/ \E ok \in BOOLEAN : ProbeDone("interval", ok)
  \/ \E s \in Seqs : SpoQueueRead(s)
  \/ \E s \in Seqs : SpoLoop(s)
  \/ \E s \in Seqs : SpoResponse(s)
  \/ \E s \in Seqs : Settle(s)
  \/ \E s \in Seqs : PullResponse(s)
  \/ \E s \in Seqs : PullUpsert(s)

SpecShared == InitServerDown /\ [][NextShared]_vars

(***************************************************************************)
(* SpecReconnect: the browser goes online and offline; both the 'online'   *)
(* probe and the periodic probe may report the remote authority, so        *)
(* reconnect sequences overlap.                                            *)
(***************************************************************************)
NextReconnect ==
  \/ \E v \in Vals : OfflineAdd(v)
  \/ \E p \in Procs : ServerAnswer(p)
  \/ BrowserOnline
  \/ BrowserOffline
  \/ IntervalTick
  \/ \E origin \in {"online", "interval"}, ok \in BOOLEAN : ProbeDone(origin, ok)
  \/ \E s \in Seqs : SpoQueueRead(s)
  \/ \E s \in Seqs : SpoLoop(s)
  \/ \E s \in Seqs : SpoResponse(s)
  \/ \E s \in Seqs : Settle(s)
  \/ \E s \in Seqs : PullResponse(s)
  \/ \E s \in Seqs : PullUpsert(s)

SpecReconnect == InitFresh /\ [][NextReconnect]_vars

(***************************************************************************)
(* SpecDrain: records are added while unreachable, the periodic probe      *)
(* finds the remote authority, the browser may go offline, and the read of *)
(* the queue may fail; every remote and storage call eventually returns: a *)
(* request that was sent is answered, and each step of a drain that can be *)
(* taken is taken.                                                         *)
(***************************************************************************)
NextDrain ==
  \/ \E v \in Vals : OfflineAdd(v)
  \/ \E p \in Procs : ServerAnswer(p)
  \/ BrowserOffline
  \/ IntervalTick
  \/ \E ok \in BOOLEAN : ProbeDone("interval", ok)
  \/ \E s \in Seqs : SpoQueueRead(s)
  \/ \E s \in Seqs : SpoQueueReadFails(s)
  \/ \E s \in Seqs : SpoLoop(s)
  \/ \E s \in Seqs : SpoResponse(s)
  \/ \E s \in Seqs : Settle(s)
  \/ \E s \in Seqs : PullResponse(s)
  \/ \E s \in Seqs : PullUpsert(s)

\* the storage answers the read of the queue, one way or the other
QueueReadReturns(s) == SpoQueueRead(s) \/ SpoQueueReadFails(s)

DrainFairness ==
  \A s \in Seqs :
    /\ WF_vars(ServerAnswer(s))
    /\ WF_vars(QueueReadReturns(s))
    /\ WF_vars(SpoLoop(s))
    /\ WF_vars(SpoResponse(s))

\* A first session, the browser being online.
InitFreshOnline == InitFresh /\ isOnline

SpecDrain == InitFreshOnline /\ [][NextDrain]_vars /\ DrainFairness

(***************************************************************************)
(* SpecBoot: the application starts (initializeData runs to its end), then  *)
(* records are added while unreachable; the browser may go offline and     *)
(* every probe of the monitor may succeed or fail.                         *)
(***************************************************************************)
\* initializeData() has ended: the list is shown and the UI can be used
Loaded == sync[Boot].pc = "done"

LoadedAdd(v) == Loaded /\ OfflineAdd(v)

NextBoot ==
  \/ \E v \in Vals : LoadedAdd(v)
  \/ \E p \in Procs : ServerAnswer(p)
  \/ BrowserOffline
  \/ IntervalTick
  \/ \E origin \in {"init", "boot", "interval"}, ok \in BOOLEAN : ProbeDone(origin, ok)
  \/ BootDecide
  \/ BootFinish
  \/ SpoGrace(Boot)
  \/ \E s \in Syncers : SpoQueueRead(s)
  \/ \E s \in Syncers : SpoLoop(s)
  \/ \E s \in Syncers : SpoResponse(s)
  \/ \E s \in Seqs : Settle(s)
  \/ \E s \in Syncers : PullResponse(s)
  \/ \E s \in Syncers : PullUpsert(s)

\* A first start: nothing stored locally, nothing on the server.
InitBootFresh == InitBoot /\ db = {} /\ server.properties = <<>>

SpecBoot == InitBootFresh /\ [][NextBoot]_vars

(***************************************************************************)
(* SpecGrace: the application starts with an operation left in the queue   *)
(* by an earlier session.                                                  *)
(***************************************************************************)
NextGrace ==
  \/ \E p \in Procs : ServerAnswer(p)
  \/ BrowserOffline
  \/ IntervalTick
  \/ \E origin \in {"init", "boot", "interval"}, ok \in BOOLEAN : ProbeDone(origin, ok)
  \/ BootDecide
  \/ BootFinish
  \/ SpoGrace(Boot)
  \/ \E s \in Syncers : SpoQueueRead(s)
  \/ \E s \in Syncers : SpoLoop(s)
  \/ \E s \in Syncers : SpoResponse(s)
  \/ \E s \in Seqs : Settle(s)
  \/ \E s \in Syncers : PullResponse(s)
  \/ \E s \in Syncers : PullUpsert(s)

SpecGrace == InitBootPending /\ [][NextGrace]_vars

(***************************************************************************)
(* SpecPull: a pull that nothing interleaves with: from the moment         *)
(* syncFromServer() is called until it returns, no repository call starts  *)
(* or continues and the server handles no other request.                   *)
(***************************************************************************)
NoPull == \A s \in Seqs : sync[s].pc \notin {"pullwait", "upsert"}

QuietAdd(v) == NoPull /\ UiAdd(v)

QuietUpdate(id, v) == NoPull /\ UiUpdate(id, v)

QuietRemove(id) == NoPull /\ UiRemove(id)

QuietResponse == NoPull /\ ClientResponse("ui")

QuietAnswer == NoPull /\ ServerAnswer("ui")

NextPull ==
  \/ \E v \in Vals : QuietAdd(v)
  \/ \E id \in DbIds(db), v \in Vals : QuietUpdate(id, v)
  \/ \E id \in DbIds(db) : QuietRemove(id)
  \/ QuietResponse
  \/ QuietAnswer
  \/ \E s \in Seqs : ServerAnswer(s)
  \/ IntervalTick
  \/ \E ok \in BOOLEAN : ProbeDone("interval", ok)
  \/ \E s \in Seqs : SpoQueueRead(s)
  \/ \E s \in Seqs : SpoLoop(s)
  \/ \E s \in Seqs : SpoResponse(s)
  \/ \E s \in Seqs : Settle(s)
  \/ \E s \in Seqs : PullResponse(s)
  \/ \E s \in Seqs : PullUpsert(s)

SpecPull == InitServerDown /\ [][NextPull]_vars

(***************************************************************************)
(* SpecStorage: SpecOffline with a local storage whose read of the queue   *)
(* may fail.                                                               *)
(***************************************************************************)
NextStorage ==
  \/ \E v \in Vals : OfflineAdd(v)
  \/ \E id \in DbIds(db), v \in Vals : OfflineUpdate(id, v)
  \/ \E id \in DbIds(db) : OfflineRemove(id)
  \/ \E p \in Procs : ServerAnswer(p)
  \/ IntervalTick
  \/ \E ok \in BOOLEAN : ProbeDone("interval", ok)
  \/ \E s \in Seqs : SpoQueueRead(s)
  \/ \E s \in Seqs : SpoQueueReadFails(s)
  \/ \E s \in Seqs : SpoLoop(s)
  \/ \E s \in Seqs : SpoResponse(s)
  \/ \E s \in Seqs : Settle(s)
  \/ \E s \in Seqs : PullResponse(s)
  \/ \E s \in Seqs : PullUpsert(s)

SpecStorage == InitServerDown /\ [][NextStorage]_vars

(***************************************************************************)
(* SpecAttempts: SpecOffline with a local storage whose write of an         *)
(* operation's attempt count may fail.                                     *)
(***************************************************************************)
NextAttempts ==
  \/ \E v \in Vals : OfflineAdd(v)
  \/ \E id \in DbIds(db), v \in Vals : OfflineUpdate(id, v)
  \/ \E id \in DbIds(db) : OfflineRemove(id)
  \/ \E p \in Procs : ServerAnswer(p)
  \/ IntervalTick
  \/ \E ok \in BOOLEAN : ProbeDone("interval", ok)
  \/ \E s \in Seqs : SpoQueueRead(s)
  \/ \E s \in Seqs : SpoLoop(s)
  \/ \E s \in Seqs : SpoIncrementFails(s)
  \/ \E s \in Seqs : SpoResponse(s)
  \/ \E s \in Seqs : Settle(s)
  \/ \E s \in Seqs : PullResponse(s)
  \/ \E s \in Seqs : PullUpsert(s)

SpecAttempts == InitServerDown /\ [][NextAttempts]_vars

(***************************************************************************)
(* SpecSnapshot: the UI edits and deletes records at any time, also while  *)
(* a pull is waiting for the getAll() that follows its clearCache().       *)
(***************************************************************************)
NextSnapshot ==
  \/ \E id \in DbIds(db), v \in Vals : UiUpdate(id, v)
  \/ \E id \in DbIds(db) : UiRemove(id)
  \/ ClientResponse("ui")
  \/ \E p \in Procs : ServerAnswer(p)
  \/ IntervalTick
  \/ \E ok \in BOOLEAN : ProbeDone("interval", ok)
  \/ \E s \in Seqs : SpoQueueRead(s)
  \/ \E s \in Seqs : SpoLoop(s)
  \/ \E s \in Seqs : SpoResponse(s)
  \/ \E s \in Seqs : Settle(s)
  \/ \E s \in Seqs : PullResponse(s)
  \/ \E s \in Seqs : PullUpsertOne(s)
  \/ \E s \in Seqs : PullClearCache(s)
  \/ \E s \in Seqs : PullGetAll(s)

SpecSnapshot == InitServerDown /\ [][NextSnapshot]_vars

(***************************************************************************)
(* SpecEnqueue: SpecOffline with a local storage whose write of a queued   *)
(* operation may fail.                                                     *)
(***************************************************************************)
NextEnqueue ==
  \/ \E v \in Vals : OfflineAdd(v)
  \/ \E v \in Vals : UiAddEnqueueFails(v)
  \/ \E id \in DbIds(db), v \in Vals : OfflineUpdate(id, v)
  \/ \E id \in DbIds(db) : OfflineRemove(id)
  \/ \E p \in Procs : ServerAnswer(p)
  \/ IntervalTick
  \/ \E ok \in BOOLEAN : ProbeDone("interval", ok)
  \/ \E s \in Seqs : SpoQueueRead(s)
  \/ \E s \in Seqs : SpoLoop(s)
  \/ \E s \in Seqs : SpoResponse(s)
  \/ \E s \in Seqs : Settle(s)
  \/ \E s \in Seqs : PullResponse(s)
  \/ \E s \in Seqs : PullUpsert(s)

SpecEnqueue == InitServerDown /\ [][NextEnqueue]_vars

(***************************************************************************)
(* SpecCreate: SpecReconnect with a local storage whose delete of a queued *)
(* operation may fail.                                                     *)
(***************************************************************************)
NextCreate ==
  \/ \E v \in Vals : OfflineAdd(v)
  \/ \E p \in Procs : ServerAnswer(p)
  \/ BrowserOnline
  \/ BrowserOffline
  \/ IntervalTick
  \/ \E origin \in {"online", "interval"}, ok \in BOOLEAN : ProbeDone(origin, ok)
  \/ \E s \in Seqs : SpoQueueRead(s)
  \/ \E s \in Seqs : SpoLoop(s)
  \/ \E s \in Seqs : SpoResponse(s)
  \/ \E s \in Seqs : SpoDequeueFails(s)
  \/ \E s \in Seqs : Settle(s)
  \/ \E s \in Seqs : PullResponse(s)
  \/ \E s \in Seqs : PullUpsert(s)

SpecCreate == InitFresh /\ [][NextCreate]_vars

(***************************************************************************)
(* SpecFallback: SpecRetry with a pull whose direct clear of the object    *)
(* store may fail.                                                         *)
(***************************************************************************)
NextFallback ==
  \/ \E v \in Vals : OfflineAdd(v)
  \/ \E id \in DbIds(db), v \in Vals : OfflineUpdate(id, v)
  \/ \E id \in DbIds(db) : OfflineRemove(id)
  \/ \E p \in Procs : ServerAnswer(p)
  \/ \E p \in Procs, fault \in Faults : RequestFault(p, fault)
  \/ IntervalTick
  \/ \E ok \in BOOLEAN : ProbeDone("interval", ok)
  \/ \E s \in Seqs : SpoQueueRead(s)
  \/ \E s \in Seqs : SpoLoop(s)
  \/ \E s \in Seqs : SpoResponse(s)
  \/ \E s \in Seqs : Settle(s)
  \/ \E s \in Seqs : PullResponse(s)
  \/ \E s \in Seqs : PullClearFails(s)
  \/ \E s \in Seqs : PullFallbackRemove(s)
  \/ \E s \in Seqs : PullFallbackResponse(s)
  \/ \E s \in Seqs : PullUpsert(s)

SpecFallback == InitServerDown /\ [][NextFallback]_vars

(***************************************************************************)
(* SpecEventually: records are added at any time, reachable or not; the    *)
(* remote create of an add may meet a fault, every other remote call       *)
(* succeeds.  The event loop never stops while a callback is ready: a      *)
(* request that was sent is answered, the continuation of a repository     *)
(* call and of each step of a reconnect sequence runs, the 10 s interval   *)
(* sends its probe when its condition holds, and a probe settles.  The     *)
(* calls of the UI are under no obligation.                                *)
(***************************************************************************)
NextEventually ==
  \/ \E v \in Vals : UiAdd(v)
  \/ ClientResponse("ui")
  \/ \E p \in Procs : ServerAnswer(p)
  \/ \E fault \in Faults : RequestFault("ui", fault)
  \/ IntervalTick
  \/ \E ok \in BOOLEAN : ProbeDone("interval", ok)
  \/ \E s \in Seqs : SpoQueueRead(s)
  \/ \E s \in Seqs : SpoLoop(s)
  \/ \E s \in Seqs : SpoResponse(s)
  \/ \E s \in Seqs : Settle(s)
  \/ \E s \in Seqs : PullResponse(s)
  \/ \E s \in Seqs : PullUpsert(s)

ProbeSettles == \E ok \in BOOLEAN : ProbeDone("interval", ok)

EventLoopFairness ==
  /\ WF_vars(ClientResponse("ui"))
  /\ WF_vars(IntervalTick)
  /\ WF_vars(ProbeSettles)
  /\ \A p \in Seqs \cup {"ui"} : WF_vars(ServerAnswer(p))
  /\ \A s \in Seqs :
       /\ WF_vars(SpoQueueRead(s))
       /\ WF_vars(SpoLoop(s))
       /\ WF_vars(SpoResponse(s))
       /\ WF_vars(Settle(s))
       /\ WF_vars(PullResponse(s))
       /\ WF_vars(PullUpsert(s))

SpecEventually == InitEmptyStore /\ [][NextEventually]_vars /\ EventLoopFairness

(***************************************************************************)
(* SpecLoss: records are added while unreachable, the periodic probe finds *)
(* the remote authority and the reconnect sequence runs; at some moment    *)
(* the remote authority stops answering while the browser stays online.    *)
(* The event loop never stops while a callback is ready.                   *)
(***************************************************************************)
NextLoss ==
  \/ \E v \in Vals : OfflineAdd(v)
  \/ \E p \in Procs : ServerAnswer(p)
  \/ RemoteStops
  \/ IntervalTick
  \/ \E ok \in BOOLEAN : ProbeWhileUp("interval", ok)
  \/ ProbeWhileDown("interval")
  \/ \E s \in Seqs : SpoQueueRead(s)
  \/ \E s \in Seqs : SpoLoop(s)
  \/ \E s \in Seqs : SpoResponse(s)
  \/ \E s \in Seqs : Settle(s)
  \/ \E s \in Seqs : PullResponse(s)
  \/ \E s \in Seqs : PullUpsert(s)

SpecLoss == InitServerDown /\ [][NextLoss]_vars /\ EventLoopFairness

\* The application while the server cannot be reached, with an observer of
\* the sync status: add, update and remove queue their operation and
\* nothing calls notifySyncStatus(), since a drain is never entered.
NextStatus ==
  \/ \E v \in Vals : OfflineAdd(v)
  \/ \E id \in DbIds(db), v \in Vals : OfflineUpdate(id, v)
  \/ \E id \in DbIds(db) : OfflineRemove(id)
  \/ SubscribeToSyncStatus
  \/ IntervalTick
  \/ ProbeDone("interval", FALSE)

SpecStatus == InitServerDown /\ [][NextStatus]_vars

(***************************************************************************)
(* SpecServer: the server alone: records are added and removed, clients    *)
(* send updates for identifiers that exist or not, the push channel opens  *)
(* and closes, and the server process restarts, in any order.              *)
(***************************************************************************)
\* the identifiers a client may hold, and the one its body may carry
UrlIds == 1..3

BodyIds == {NoId, 1, 2}

NextServer ==
  \/ \E v \in Vals : RepositoryAdd(v)
  \/ \E id \in Ids(server.properties) : RepositoryRemove(id)
  \/ \E id \in UrlIds, bodyId \in BodyIds, v \in Vals : OtherClientUpdate(id, bodyId, v)
  \/ WsOpen
  \/ WsClose
  \/ RepositoryRestart

SpecServer == InitEmptyStore /\ [][NextServer]_vars

(***************************************************************************)
(* SpecMessages: calls of the client fail, with every error of a bounded   *)
(* set, and the message for the user is made from each.                    *)
(***************************************************************************)
NextMessages == \E error \in ErrorInputs : ShowError(error)

SpecMessages == InitFresh /\ [][NextMessages]_vars

(***************************************************************************)
(* SpecObserver: SpecOffline with components that subscribe to the         *)
(* repository and unsubscribe from it at any time; one of the callbacks    *)
(* throws whenever it is invoked.                                          *)
(***************************************************************************)
NextObserver ==
  \/ \E v \in Vals : OfflineAdd(v)
  \/ \E id \in DbIds(db), v \in Vals : OfflineUpdate(id, v)
  \/ \E id \in DbIds(db) : OfflineRemove(id)
  \/ \E callback \in Observers : Subscribe(callback)
  \/ \E callback \in Observers : Unsubscribe(callback)
  \/ \E p \in Procs : ServerAnswer(p)
  \/ IntervalTick
  \/ \E ok \in BOOLEAN : ProbeDone("interval", ok)
  \/ \E s \in Seqs : SpoQueueRead(s)
  \/ \E s \in Seqs : SpoLoop(s)
  \/ \E s \in Seqs : SpoResponse(s)
  \/ \E s \in Seqs : Settle(s)
  \/ \E s \in Seqs : PullResponse(s)
  \/ \E s \in Seqs : PullUpsert(s)

SpecObserver == InitFresh /\ [][NextObserver]_vars

(***************************************************************************)
(* Properties.                                                             *)
(***************************************************************************)
InSeq(r, seq) == \E k \in 1..Len(seq) : seq[k] = r

\* what getAll() returns in the current state and in the next one
GetAll == RepoGetAll(St).cache

GetAllNext ==
  IF ~cacheNull' /\ isInitialized' THEN propertiesCache' ELSE SortedById(db')

\* the step in which the drain of sequence s finishes its loop normally
DrainCompletes(s) == SpoLoop(s) /\ sync[s].i > Len(sync[s].pendingOps)

\* the operation whose remote call sequence s is waiting for
CurrentOp(s) == sync[s].pendingOps[sync[s].i]

\* the records of the remote authority and of the replay oracle hold the
\* same values, each value the same number of times
SameValues(properties, replay) ==
  \A v \in Vals :
    Cardinality({k \in 1..Len(properties) : properties[k].v = v})
      = Cardinality({r \in replay : r.v = v})

\* C1: after calls made while unreachable and one drain in which every
\* remote call succeeded, the remote records equal, up to identifiers, the
\* result of replaying the same calls directly against the remote authority.
C1_QueueOrderingFidelity ==
  \A s \in Seqs :
    (sync[s].returned /\ ~sync[s].skipped /\ sync[s].failed = 0)
      => SameValues(server.properties, hist.replay)

\* C2: a record added while unreachable is in getAll() under its local
\* identifier as soon as add returns; when the drain that created it
\* remotely completes, getAll() holds no entry under a local identifier of a
\* drained create, holds every identifier exactly once, holds a record under
\* a canonical identifier, and the queue is empty.
C2_OfflineCreateScenario ==
  [][/\ \A v \in Vals :
          OfflineAdd(v) => LocalId(hist.ops + 1) \in Ids(GetAllNext)
     /\ \A s \in Seqs :
          (DrainCompletes(s) /\ sync[s].failed = 0 /\
           \E k \in 1..Len(sync[s].pendingOps) :
              sync[s].pendingOps[k].operation = "create")
            => /\ \A k \in 1..Len(sync[s].pendingOps) :
                    sync[s].pendingOps[k].operation = "create"
                      => sync[s].pendingOps[k].data.localId \notin Ids(GetAll)
               /\ \A k \in 1..Len(GetAll) : CountId(GetAll, GetAll[k].id) = 1
               /\ \E k \in 1..Len(GetAll) : ~IsLocal(GetAll[k].id)
               /\ queue = <<>>]_vars

\* the step in which the pull of sequence s returns
PullEnds(s) == sync[s].pc = "upsert" /\ sync'[s].pc = "idle"

RemoteSet == {server.properties[k] : k \in 1..Len(server.properties)}

\* C3: a pull that nothing interleaves with ends with the object store and
\* the snapshot returned holding exactly the remote records.
C3_PullIsFullReplacement ==
  [][\A s \in Seqs :
       PullEnds(s) => /\ db' = RemoteSet
                      /\ ~cacheNull' /\ isInitialized'
                      /\ propertiesCache' = SortedById(RemoteSet)]_vars

\* a pull has just replaced local records {A (local identifier), B} by the
\* remote set {B', C}
C3_Witness ==
  \E s \in Seqs :
    /\ sync[s].pc = "idle"
    /\ db = {sync[s].serverProperties[k] : k \in 1..Len(sync[s].serverProperties)}
    /\ \E a \in 1..Len(sync[s].localProps) : IsLocal(sync[s].localProps[a].id)
    /\ \E b \in 1..Len(sync[s].localProps), k \in 1..Len(sync[s].serverProperties) :
         /\ sync[s].localProps[b].id = sync[s].serverProperties[k].id
         /\ sync[s].localProps[b].v # sync[s].serverProperties[k].v
    /\ \E k \in 1..Len(sync[s].serverProperties) :
         sync[s].serverProperties[k].id \notin Ids(sync[s].localProps)

\* C4: a queued delete that the remote authority answers with 404 is counted
\* as a success, not as failed, and is dequeued.
C4_DeleteIdempotentInDrain ==
  [][\A s \in Seqs :
       (SpoResponse(s) /\ CurrentOp(s).operation = "delete" /\ req[s].err.status = 404)
         => /\ sync'[s].success = sync[s].success + 1
            /\ sync'[s].failed = sync[s].failed
            /\ queue' = Dequeue(queue, CurrentOp(s).id)]_vars

\* C5: a queued operation whose remote call fails with a 4xx other than 404
\* is removed from the queue in that drain, and only that operation.
C5_NonRetryableIsDropped ==
  [][\A s \in Seqs :
       (SpoResponse(s) /\ req[s].err.status \in 400..499 /\ req[s].err.status # 404)
         => queue' = Dequeue(queue, CurrentOp(s).id)]_vars

\* a retryable failure of the remote call: a 5xx, or no status at all
Retryable(raw) == raw # NoErr /\ (raw.status >= 500 \/ raw.status = 0)

\* a queued operation without its attempt counter
Intent(q) ==
  [k \in 1..Len(q) |-> [id |-> q[k].id, operation |-> q[k].operation,
                        data |-> q[k].data, timestamp |-> q[k].timestamp]]

\* C6: a queued operation whose remote call fails with a retryable error is
\* counted in 'failed' and the queue is left as it is; and no step removes an
\* operation from the queue other than the settling of that very operation
\* with a success or a non-retryable failure, nor changes the kind, payload
\* or relative order of the operations that stay.
C6_RetryableStaysQueued ==
  [][/\ \A s \in Seqs :
          (SpoResponse(s) /\ Retryable(req[s].err))
            => /\ queue' = queue
               /\ sync'[s].failed = sync[s].failed + 1
               /\ sync'[s].success = sync[s].success
     /\ \A k \in 1..Len(queue) :
          queue[k].id \notin Ids(queue')
            => \E s \in Seqs : /\ SpoResponse(s)
                               /\ CurrentOp(s).id = queue[k].id
                               /\ ~Retryable(req[s].err)
     /\ Intent(SelectRecs(queue', Ids(queue))) = Intent(SelectRecs(queue, Ids(queue')))]_vars

\* a drain has just caught a 5xx failure: the operation is still queued, in
\* front of a later one, and counted as failed
C6_Witness ==
  \E s \in Seqs :
    /\ sync[s].pc = "loop" /\ sync[s].i = 2
    /\ sync[s].failed = 1
    /\ sync[s].error = ClientError(FaultError("http500"))
    /\ Len(queue) >= 2
    /\ queue[1].id = sync[s].pendingOps[1].id
    /\ queue[1].attempts = 1

\* the executions of syncPendingOperations() that are past the isSyncing guard
Draining == {s \in Seqs : sync[s].pc \in {"qread", "loop", "wait"}}

\* C7: at most one execution of syncPendingOperations() is past the guard,
\* and a call made while a drain is in progress returns {0, 0}, sends no
\* request and leaves the queue and the attempt counters alone.
C7_DrainIsSingleFlight ==
  [][/\ Cardinality(Draining') <= 1
     /\ \A s \in Seqs :
          (isSyncing /\ sync[s].pc = "idle" /\ sync'[s].pc # "idle")
            => /\ sync'[s].returned
               /\ sync'[s].success = 0 /\ sync'[s].failed = 0
               /\ sync'[s].pc \notin {"qread", "loop", "wait"}
               /\ req' = req
               /\ queue' = queue
               /\ isSyncing']_vars

\* a call returned at the guard while another sequence is draining a
\* non-empty queue
C7_Witness ==
  \E s, t \in Seqs :
    /\ s # t
    /\ sync[s].pc = "wait"
    /\ sync[t].skipped /\ sync[t].returned /\ sync[t].pc = "settle"
    /\ queue # <<>>

\* C8: in a reconnect sequence the pull starts only from the end of the
\* settle delay, which starts only once syncPendingOperations() has returned.
C8_ReconnectOrdering ==
  [][\A s \in Seqs :
       /\ (sync[s].pc # "pullwait" /\ sync'[s].pc = "pullwait")
            => sync[s].pc = "settle" /\ sync[s].returned /\ sync'[s].settled
       /\ (sync[s].pc # "settle" /\ sync'[s].pc = "settle")
            => sync'[s].returned /\ s \notin Draining']_vars

\* a pull was started after a drain that pushed an operation
C8_Witness ==
  \E s \in Seqs :
    /\ sync[s].pc = "pullwait"
    /\ sync[s].returned /\ sync[s].settled
    /\ sync[s].success >= 1
    /\ req[s].method = "GET"

\* C9: add never enqueues its operation without having attempted the remote
\* create: the step of add that follows the local write sends the POST.
C9_AddAlwaysAttemptsRemote ==
  [][\A v \in Vals :
       UiAdd(v) => /\ req'["ui"].method = "POST"
                   /\ queue' = queue]_vars

C11_UpdateBeforeCanonicalIdIsLocalOnly ==
  [][\A id \in DbIds(db), v \in Vals :
       (UiUpdate(id, v) /\ IsLocal(id))
         => /\ db' = DbPut(db, Rec(id, NoId, v))
            /\ queue' = queue /\ nextKey' = nextKey
            /\ req' = req /\ client' = client
            /\ server' = server /\ wsInbox' = wsInbox]_vars

\* the remote authority is reachable and a record added as "a" while it was
\* not has been updated to "b": its create is still the only queued
\* operation and no request of the UI is in flight
C11_Witness ==
  /\ IsNetworkOnline
  /\ hist.ops = 2
  /\ req["ui"] = NoReq
  /\ Len(queue) = 1
  /\ queue[1].operation = "create"
  /\ queue[1].data.v = "a"
  /\ DbGet(db, queue[1].data.localId) = Rec(queue[1].data.localId, NoId, "b")

\* C12: when a queued create drains successfully and the record is still
\* stored under its local identifier, the record holds the values the local
\* store held for it at that moment (the latest ones), in the local store
\* under the canonical identifier and at the remote authority.
C12_DrainedCreateHoldsLatestValues ==
  [][\A s \in Seqs :
       (/\ SpoResponse(s)
        /\ CurrentOp(s).operation = "create"
        /\ req[s].err = NoErr
        /\ DbGet(db, CurrentOp(s).data.localId) # NoRec)
         => LET latest == DbGet(db, CurrentOp(s).data.localId).v
                id == req[s].body[1].id
            IN /\ DbGet(db', id).v = latest
               /\ \E k \in 1..Len(server'.properties) :
                    /\ server'.properties[k].id = id
                    /\ server'.properties[k].v = latest]_vars

\* the step appended one operation of that kind, keyed by id, to the queue
Enqueued(operation, id) ==
  /\ Len(queue') = Len(queue) + 1
  /\ SubSeq(queue', 1, Len(queue)) = queue
  /\ queue'[Len(queue')].operation = operation
  /\ queue'[Len(queue')].data.id = id

\* C13: update of a record stored under a canonical identifier either sends
\* the remote update for that identifier or enqueues an update operation
\* keyed by it; and when the remote update that was sent fails, the update
\* operation is enqueued.
C13_UpdateReachesRemoteOrQueue ==
  [][/\ \A id \in DbIds(db), v \in Vals :
          (UiUpdate(id, v) /\ ~IsLocal(id))
            => \/ /\ req'["ui"].st = "sent"
                  /\ req'["ui"].method = "PUT"
                  /\ req'["ui"].data.id = id
                  /\ req'["ui"].data.v = v
               \/ Enqueued("update", id)
     /\ (ClientResponse("ui") /\ client["ui"].pc = "updwait" /\ req["ui"].err # NoErr)
          => Enqueued("update", client["ui"].data.id)]_vars

\* C14: remove of a record stored under a canonical identifier either sends
\* the remote delete for that identifier or enqueues a delete operation keyed
\* by it; when the remote delete that was sent fails, the delete operation is
\* enqueued; only the removal of a record stored under a local identifier
\* issues no request and leaves the queue as it is.
C14_RemoveReachesRemoteOrQueue ==
  [][/\ \A id \in DbIds(db) :
          UiRemove(id)
            => IF IsLocal(id)
               THEN req' = req /\ queue' = queue
               ELSE \/ /\ req'["ui"].st = "sent"
                       /\ req'["ui"].method = "DELETE"
                       /\ req'["ui"].data.id = id
                    \/ Enqueued("delete", id)
     /\ (ClientResponse("ui") /\ client["ui"].pc = "remwait" /\ req["ui"].err # NoErr)
          => Enqueued("delete", client["ui"].data.id)]_vars

StNext ==
  Store(db', propertiesCache', cacheNull', isInitialized', notified',
        Observer(subscribers', delivered'))

\* what reads under the two identifiers must return once the record held
\* under oldId has been remapped to newId
Remapped(old, oldId, newId) ==
  /\ RepoGetById(StNext, newId).v = old.v
  /\ DbGet(db', newId).v = old.v
  /\ \E k \in 1..Len(GetAllNext) : GetAllNext[k].id = newId
  /\ \A k \in 1..Len(GetAllNext) : GetAllNext[k].id = newId => GetAllNext[k].v = old.v
  /\ RepoGetById(StNext, oldId) = NoRec
  /\ DbGet(db', oldId) = NoRec
  /\ oldId \notin Ids(GetAllNext)

\* C16: when updateLocalId(oldId, newId) runs on a record that exists (in
\* add after the remote create, or in the drain after a queued create),
\* getById and getAll then return under newId a record with the fields the
\* record had before, in the snapshot and in the object store, and nothing
\* under oldId.
C16_RemapPreservesPayload ==
  [][/\ \A s \in Seqs :
          (/\ SpoResponse(s)
           /\ CurrentOp(s).operation = "create"
           /\ req[s].err = NoErr
           /\ RepoGetById(St, CurrentOp(s).data.localId) # NoRec)
            => Remapped(RepoGetById(St, CurrentOp(s).data.localId),
                        CurrentOp(s).data.localId, req[s].body[1].id)
     /\ (/\ ClientResponse("ui")
         /\ client["ui"].pc = "addwait"
         /\ req["ui"].err = NoErr
         /\ RepoGetById(St, client["ui"].data.localId) # NoRec)
          => Remapped(RepoGetById(St, client["ui"].data.localId),
                      client["ui"].data.localId, req["ui"].body[1].id)]_vars

\* C17: in every reachable state the in-memory snapshot holds at most one
\* entry per identifier, whatever the interleaving of updateLocalId with the
\* upserts of the push handler and of the pull.
C17_OneEntryPerIdentifier ==
  \A k \in 1..Len(propertiesCache) :
    CountId(propertiesCache, propertiesCache[k].id) = 1

\* C18: the push handler, applying a 'created', 'updated' or 'deleted'
\* notification, adds no operation to the queue and sends no request to the
\* remote authority, in the step that handles the message and in the
\* continuation of the repository call it made.
C18_PushBypassesQueueAndRemote ==
  [][(WsHandle \/ ClientResponse("ws"))
       => /\ queue' = queue /\ nextKey' = nextKey
          /\ req'["ws"].st # "sent"]_vars

\* C19: the subscribers of the network status have been handed the current
\* effective reachability (isOnline and serverReachable), or the 'online'
\* handler is waiting for its probe and will hand it over: no change of the
\* effective value is left without an invocation of the subscribers.
C19_EveryStatusChangeIsDelivered ==
  hist.heard # IsNetworkOnline => "online" \in probes

\* C20: every step that changes the object store, other than the clearing
\* step of a pull, hands the new snapshot to the observers; and when a pull
\* that cleared records returns, the observers have been invoked since the
\* clearing: the list they hold has none of the cleared records that the
\* object store no longer holds.
C20_EveryStoreChangeIsNotified ==
  [][/\ (db' # db /\ ~\E s \in Seqs : PullResponse(s))
          => notified' = propertiesCache'
     /\ \A s \in Seqs :
          PullEnds(s)
            => \A k \in 1..Len(sync[s].localProps) :
                 InSeq(sync[s].localProps[k], notified')
                   => sync[s].localProps[k] \in db']_vars

\* the step calls observer.notify: add, update, remove, the remap or upsert
\* of a drained create, an upsert of the pull
Notifies ==
  \/ \E v \in Vals : OfflineAdd(v)
  \/ \E id \in DbIds(db), v \in Vals : OfflineUpdate(id, v)
  \/ \E id \in DbIds(db) : OfflineRemove(id)
  \/ \E s \in Seqs :
       SpoResponse(s) /\ CurrentOp(s).operation = "create" /\ req[s].err = NoErr
  \/ \E s \in Seqs : PullUpsert(s) /\ sync[s].j <= Len(sync[s].serverProperties)

\* C21: in a step that notifies, every subscribed callback is invoked with
\* the new snapshot, wherever a throwing callback stands in the Set, and the
\* mutating call goes on to its end (the add is stored and enqueued, the
\* drained create is stored under its canonical identifier and dequeued); a
\* callback that is not subscribed is not invoked.
C21_ObserverFailuresAreIsolated ==
  [][/\ Notifies
          => \A callback \in Subscribed(St.observer) :
               delivered'[callback] = propertiesCache'
     /\ \A callback \in Observers \ Subscribed(St.observer) :
          delivered'[callback] = delivered[callback]
     /\ \A v \in Vals :
          OfflineAdd(v) => /\ Rec(LocalId(hist.ops + 1), NoId, v) \in db'
                           /\ Len(queue') = Len(queue) + 1
     /\ \A s \in Seqs :
          (SpoResponse(s) /\ CurrentOp(s).operation = "create" /\ req[s].err = NoErr)
            => /\ req[s].body[1].id \in DbIds(db')
               /\ CurrentOp(s).id \notin Ids(queue')]_vars

\* the throwing callback subscribed before the App's, and both were invoked
\* with the current snapshot, which holds a record
C21_Witness ==
  /\ subscribers = <<"faulty", "app">>
  /\ propertiesCache # <<>>
  /\ delivered["faulty"] = propertiesCache
  /\ delivered["app"] = propertiesCache

\* C22: every execution of syncPendingOperations() that is past the guard
\* ends by returning its {success, failed} counts: it never ends by throwing,
\* whatever failed in the drain.
C22_DrainNeverThrows ==
  [][\A s \in Seqs :
       (s \in Draining /\ s \notin Draining')
         => sync'[s].returned /\ ~sync'[s].threw]_vars

\* C23: the identifier an add returns was returned by no earlier add,
\* whatever adds, removes and restarts came before.
C23_IdentifiersAreNeverReused ==
  [][\A v \in Vals :
       RepositoryAdd(v) => ServerAdd(server, CreateData(NoId, v)).result.id \notin hist.issued]_vars

\* C24: a PUT for an identifier the server holds replaces that record where
\* it stands: the record keeps the identifier of the URL, whatever the body
\* carries, every other record and the number of records are as before, and
\* the change is broadcast; a PUT for an identifier the server does not hold
\* is answered 404, changes no record and broadcasts nothing.
C24_ServerUpdateReusesTheElement ==
  [][\A id \in UrlIds, bodyId \in BodyIds, v \in Vals :
       OtherClientUpdate(id, bodyId, v)
         => LET index == FindIndex(server.properties, id)
                answer == PutRoute(server, id, [localId |-> NoId, id |-> bodyId,
                                                serverId |-> NoId, v |-> v])
            IN IF index > 0
               THEN /\ Len(server'.properties) = Len(server.properties)
                    /\ server'.properties[index].id = id
                    /\ server'.properties[index].v = v
                    /\ \A k \in 1..Len(server.properties) :
                         k # index => server'.properties[k] = server.properties[k]
                    /\ server'.nextId = server.nextId
                    /\ answer.err = NoErr
                    /\ answer.body = <<server'.properties[index]>>
                    /\ wsConnected
                         => wsInbox' = Append(wsInbox,
                                              PushMsg("updated", server'.properties[index]))
               ELSE /\ server' = server
                    /\ wsInbox' = wsInbox
                    /\ answer.err.status = 404]_vars

\* the first of two records was updated where it stands and the change was
\* broadcast to the connected client
C24_Witness ==
  /\ Len(server.properties) = 2
  /\ server.properties[1] = Rec(1, NoId, "b")
  /\ server.properties[2] = Rec(2, NoId, "a")
  /\ wsInbox = <<PushMsg("updated", Rec(1, NoId, "b"))>>

\* C25: the message made for the user is one of the category messages,
\* whatever the error it is made from.
C25_MessagesAreCategoryMessages ==
  hist.shown # "" => hist.shown \in CategoryMessages

\* the step in which the drain of sequence s sends the request of an
\* operation
DrainSends(s) == SpoLoop(s) /\ sync'[s].pc = "wait"

\* C26: the drain works on the operations that were in the queue when it
\* read it, and on no other; it sends the request of an operation only when
\* no request of its own is in flight and every operation before it in that
\* list has been counted as a success or as failed; and no operation before
\* it has a later enqueue timestamp.
C26_DrainIsSequentialInEnqueueOrder ==
  [][\A s \in Seqs :
       /\ (SpoQueueRead(s) /\ queue # <<>>)
            => /\ Ids(sync'[s].pendingOps) = Ids(queue)
               /\ Len(sync'[s].pendingOps) = Len(queue)
       /\ (sync[s].pc \in {"loop", "wait"} /\ sync'[s].pc \in {"loop", "wait"})
            => sync'[s].pendingOps = sync[s].pendingOps
       /\ (req'[s].st = "sent" /\ req'[s].method # "GET" /\ req'[s] # req[s])
            => DrainSends(s)
       /\ DrainSends(s)
            => /\ req[s] = NoReq
               /\ req'[s] = DrainRequest(CurrentOp(s))
               /\ CurrentOp(s).id \in Ids(sync[s].pendingOps)
               /\ sync[s].success + sync[s].failed = sync[s].i - 1
               /\ \A k \in 1..(sync[s].i - 1) :
                    sync[s].pendingOps[k].timestamp <= CurrentOp(s).timestamp]_vars

\* the request of the second operation of a drain is in flight, the first
\* one having failed and stayed in the queue
C26_Witness ==
  \E s \in Seqs :
    /\ sync[s].pc = "wait" /\ sync[s].i = 2
    /\ sync[s].failed = 1
    /\ req[s].st = "sent"
    /\ sync[s].pendingOps[1].timestamp < sync[s].pendingOps[2].timestamp
    /\ Len(queue) = 2

\* C27: when the remote create of a queued create succeeds and getById finds
\* no record under the operation's local identifier, the record the remote
\* authority returned is stored under its canonical identifier, in the
\* object store and in the snapshot, the operation is dequeued and it is
\* counted as a success.
C27_DrainedCreateOfDeletedRecordIsUpserted ==
  [][\A s \in Seqs :
       (/\ SpoResponse(s)
        /\ CurrentOp(s).operation = "create"
        /\ req[s].err = NoErr
        /\ RepoGetById(St, CurrentOp(s).data.localId) = NoRec)
         => LET result == req[s].body[1]
            IN /\ ~IsLocal(result.id)
               /\ DbGet(db', result.id) = result
               /\ ~cacheNull' /\ InSeq(result, propertiesCache')
               /\ CurrentOp(s).data.localId \notin DbIds(db')
               /\ CurrentOp(s).id \notin Ids(queue')
               /\ sync'[s].success = sync[s].success + 1
               /\ sync'[s].failed = sync[s].failed]_vars

\* a record was added and removed while unreachable; the drain has created
\* it remotely and stored the remote record, which carries no serverId, and
\* the queue is empty
C27_Witness ==
  \E s \in Seqs :
    /\ \A t \in Seqs \ {s} : sync[t] = IdleSync
    /\ sync[s].pc = "loop" /\ sync[s].i = 2 /\ sync[s].success = 1
    /\ sync[s].pendingOps[1].operation = "create"
    /\ hist.ops = 2
    /\ queue = <<>>
    /\ \E r \in db : r.id >= 3 /\ ~IsLocal(r.id) /\ r.serverId = NoId
    /\ \A r \in db : ~IsLocal(r.id)

\* C28: when the drain, about to start an operation, finds the effective
\* reachability false, it sends no request and ends: the operations it has
\* not reached are in the queue as the drain read them (attempt count and
\* payload) and in the same order, the queue, the local store and the remote
\* authority are as the operations already handled left them, and the call
\* returns the counts reached so far.
C28_MidDrainAbort ==
  [][\A s \in Seqs :
       (SpoLoop(s) /\ ~IsNetworkOnline /\ sync[s].i <= Len(sync[s].pendingOps))
         => /\ req' = req
            /\ queue' = queue
            /\ SelectRecs(queue, {sync[s].pendingOps[k].id :
                                    k \in sync[s].i..Len(sync[s].pendingOps)})
                 = SubSeq(sync[s].pendingOps, sync[s].i, Len(sync[s].pendingOps))
            /\ db' = db /\ propertiesCache' = propertiesCache
            /\ server' = server
            /\ s \notin Draining' /\ ~isSyncing'
            /\ sync'[s].returned
            /\ sync'[s].success = sync[s].success
            /\ sync'[s].failed = sync[s].failed]_vars

\* a drain of two creates ended after the first one, the browser having
\* gone offline: the first record is at the remote authority and stored
\* under its canonical identifier, the second create is still queued and
\* was never attempted
C28_Witness ==
  \E s \in Seqs :
    /\ ~IsNetworkOnline
    /\ sync[s].pc = "settle" /\ sync[s].returned /\ ~sync[s].skipped
    /\ sync[s].success = 1 /\ sync[s].failed = 0
    /\ Len(queue) = 1 /\ queue[1].attempts = 0 /\ queue[1].operation = "create"
    /\ Len(server.properties) = 1
    /\ server.properties[1].id \in DbIds(db)
    /\ queue[1].data.localId \in DbIds(db)

\* C29: a call of syncPendingOperations() that finds the effective
\* reachability false, and false again after the grace wait, returns {0, 0}
\* and changes nothing: the queue with its attempt counters, isSyncing (no
\* SyncStatus is broadcast), the local store, the remote authority and the
\* requests in flight are as before, in the step that starts the wait and in
\* the step that returns.
C29_UnreachableCallHasNoSideEffect ==
  [][/\ (sync[Boot].pc # "grace" /\ sync'[Boot].pc = "grace")
          => /\ isSyncing' = isSyncing
             /\ queue' = queue /\ nextKey' = nextKey
             /\ req' = req
             /\ server' = server /\ wsInbox' = wsInbox
             /\ db' = db
     /\ (SpoGrace(Boot) /\ ~IsNetworkOnline)
          => /\ sync'[Boot].returned
             /\ sync'[Boot].success = 0 /\ sync'[Boot].failed = 0
             /\ isSyncing' = isSyncing
             /\ queue' = queue /\ nextKey' = nextKey
             /\ req' = req
             /\ server' = server /\ wsInbox' = wsInbox
             /\ db' = db /\ propertiesCache' = propertiesCache
             /\ cacheNull' = cacheNull /\ notified' = notified]_vars

\* the start-up call took the grace wait and returned while the remote
\* authority was unreachable: the operation left by the earlier session is
\* still queued, never attempted, and no drain is in progress
C29_Witness ==
  /\ sync[Boot].pc = "bootfinish"
  /\ sync[Boot].waited /\ sync[Boot].returned /\ ~sync[Boot].skipped
  /\ sync[Boot].success = 0 /\ sync[Boot].failed = 0
  /\ ~isOnline
  /\ ~isSyncing
  /\ Len(queue) = 1 /\ queue[1].attempts = 0
  /\ server.properties = <<>>

\* C30: whenever isSyncing is true it is false again later, and the step in
\* which an execution of syncPendingOperations() that is past the guard ends
\* (the queue was empty, the loop completed, reachability was lost, the read
\* of the queue threw) leaves isSyncing false.
C30_DrainingAlwaysEnds ==
  /\ [][\A s \in Seqs : (s \in Draining /\ s \notin Draining') => ~isSyncing']_vars
  /\ (isSyncing ~> ~isSyncing)

\* an execution of syncPendingOperations() ended by throwing, operations
\* being queued, and isSyncing is false
C30_Witness ==
  \E s \in Seqs :
    /\ sync[s].threw
    /\ ~isSyncing
    /\ queue # <<>>

\* C31: when persisting the attempt-count increment of an operation fails,
\* the drain is not aborted (isSyncing stays set, nothing is thrown), the
\* request of that very operation is sent, and once it settled the loop goes
\* on: the next operation is dispatched too.
C31_IncrementAttemptsIsFireAndForget ==
  [][\A s \in Seqs :
       /\ SpoIncrementFails(s)
            => /\ isSyncing /\ isSyncing'
               /\ ~sync'[s].threw
               /\ sync'[s].pc = "wait"
               /\ req'[s] = DrainRequest(CurrentOp(s))
               /\ queue' = queue
       /\ (SpoResponse(s) /\ sync[s].incFailed = sync[s].i)
            => /\ isSyncing'
               /\ sync'[s].pc = "loop" /\ sync'[s].i = sync[s].i + 1
       /\ (SpoLoop(s) /\ sync[s].incFailed # 0 /\ IsNetworkOnline
              /\ sync[s].i <= Len(sync[s].pendingOps))
            => /\ sync'[s].pc = "wait"
               /\ req'[s] = DrainRequest(CurrentOp(s))]_vars

\* the increment of the first of two operations failed; its request was
\* sent and settled, and the request of the second one is now in flight
C31_Witness ==
  \E s \in Seqs :
    /\ sync[s].incFailed = 1 /\ sync[s].i = 2
    /\ sync[s].pc = "wait" /\ req[s].st = "sent"
    /\ isSyncing
    /\ sync[s].success = 1
    /\ \E k \in 1..Len(queue) : queue[k].id = sync[s].pendingOps[2].id /\ queue[k].attempts = 1

\* C32: whenever an observer is handed a snapshot, the snapshot holds
\* exactly the records of the object store at that moment, each once.
C32_DeliveredSnapshotIsTheStore ==
  [][\A callback \in Observers :
       delivered'[callback] # delivered[callback]
         => /\ {delivered'[callback][k] : k \in 1..Len(delivered'[callback])} = db'
            /\ Len(delivered'[callback]) = Cardinality(db')]_vars

\* C33: in every state where no repository call and no drain is in flight,
\* each record stored under a local identifier has a create operation
\* carrying that local identifier in the queue.
C33_NoLocalRecordIsOrphaned ==
  (~isSyncing /\ \A c \in Clients : client[c].pc = "idle")
    => \A r \in db :
         IsLocal(r.id)
           => \E k \in 1..Len(queue) :
                queue[k].operation = "create" /\ queue[k].data.localId = r.id

\* C34: the remote authority, empty at start, never holds more records than
\* add() was called: no add leads to two remote creates.
C34_AtMostOnceCreate == Len(server.properties) <= hist.ops

\* C35: no sequence starts syncFromServer() while a drain is in progress,
\* and the clearing step of a pull removes no record stored under a local
\* identifier whose create operation is still in the queue.
C35_PullNeverClobbersUnpushed ==
  [][\A s \in Syncers :
       /\ (sync[s].pc # "pullwait" /\ sync'[s].pc = "pullwait") => ~isSyncing
       /\ PullResponse(s)
            => \A r \in db :
                 (IsLocal(r.id) /\ \E k \in 1..Len(queue) :
                                     /\ queue[k].operation = "create"
                                     /\ queue[k].data.localId = r.id)
                   => r.id \in DbIds(db')]_vars

\* C36: a step of syncFromServer() sends no request to the remote authority
\* other than the GET of the record set, and adds no operation to the queue.
C36_PullIsReadOnly ==
  [][\A s \in Seqs :
       (sync[s].pc \in {"settle", "pullwait", "fallback", "fallbackwait", "upsert"}
          /\ sync'[s] # sync[s])
         => /\ req'[s].st = "sent" => req'[s].method = "GET"
            /\ queue' = queue]_vars

\* C37: once no remote call fails any more, a non-empty queue is eventually
\* emptied for as long as effective reachability stays true: either the
\* queue becomes empty or reachability is lost.
C37_QueuedOperationsAreEventuallyDrained ==
  (queue # <<>> /\ IsNetworkOnline /\ hist.faults = MaxFaults)
    ~> (queue = <<>> \/ ~IsNetworkOnline)

\* C38: SyncStatus is accurate at rest.  Whenever no drain is in progress
\* and no status notification is pending, the SyncStatus most recently
\* handed to the observer has isSyncing = false and pendingOperations equal
\* to the number of operations in the queue, the value handed on
\* subscription and the one standing after add, update or remove has
\* queued an operation included.  While the server cannot be reached no
\* notifySyncStatus() is ever started, so none is pending.
C38_SyncStatusIsAccurateAtRest ==
  (hist.status # <<>> /\ ~isSyncing /\ \A s \in Seqs : sync[s].pc = "idle")
    => /\ ~hist.status[1].isSyncing
       /\ hist.status[1].pendingOperations = Len(queue)

\* C39: in every reachable state of the monitor, isOnline = FALSE implies
\* serverReachable = FALSE.
C39_OfflineImpliesUnreachable == ~isOnline => ~serverReachable

\* C40: once the remote authority has stopped answering while the browser
\* stays online, the effective reachability eventually is false and FALSE is
\* the status last handed to the subscribers.
C40_LossIsEventuallyDetected ==
  (hist.down /\ isOnline) ~> (~IsNetworkOnline /\ ~hist.heard)

====
